---- MODULE Spec2Model ----
(***************************************************************************)
(* Review aggregation of the ketamine software directory                   *)
(* (scripts/aggregate-reviews.mjs): the raw G2 and Capterra dumps, the     *)
(* vendor mapping registry and the previous aggregated-reviews.json are    *)
(* merged into one record per registry vendor.                             *)
(*                                                                         *)
(* Numbers.  A raw score is kept in hundredths of a star (4.46 is 446), a  *)
(* stored score and an aggregate score in tenths (4.5 is 45): Math.round   *)
(* (x * 10) / 10 is the step from the first to the second.  Decimal        *)
(* arithmetic is exact here; binary floating point error is not modelled.  *)
(* A date is a day number; a later day is a larger number.                 *)
(* A JavaScript value that need not be a number is a record [t, v]: t is   *)
(* "num" (v is the number), "undef" (absent or null) or "str" (a string).   *)
(* A URL is a record [host, path]; the empty string, null and an absent    *)
(* field are EmptyUrl.                                                     *)
(*                                                                         *)
(* The module also holds the classification agent                          *)
(* (scripts/agents/acquire/classify.mjs) and the acquisition agent         *)
(* (scripts/agents/acquire/index.mjs), each with its own specification     *)
(* over its own variables; the variables of the other agents stay idle.    *)
(***************************************************************************)
EXTENDS Integers, Sequences, FiniteSets, TLC

VARIABLES
    registry,       \* vendor-mappings.json: the vendors, in key order
    g2Raw,          \* g2-raw.json
    capterraRaw,    \* capterra-raw.json
    aggregated,     \* aggregated-reviews.json (no vendor: the file is missing)
    previous,       \* the snapshot of aggregated-reviews.json the last run loaded
    today,          \* the date; after a run, the date that run stamped
    pc,             \* "scrape": the dumps are being produced; "done": a run has ended
    unparseable,    \* the files of data/reviews whose text JSON.parse rejects
    exitCode,       \* the exit code of the last run of aggregate-reviews.mjs
    verificationResults,    \* data/verification-report.json, as classify.mjs reads it
    classifications,        \* classifyAllVendors: the classifications so far
    existingVendors,    \* src/content/software: the vendors of the directory
    discovered,         \* data/acquire: g2-discovered.json and capterra-discovered.json
    log,                \* runAcquisition: what became of each discovered vendor so far
    newVendors,         \* runAcquisition: the candidates accepted so far
    reports,            \* runAcquisition: the verification reports of the candidates
    newEntries,         \* runAcquisition: the entries generated so far
    acquirePc,          \* runAcquisition: where the run stands ("idle": not started)
    runMode,            \* runAcquisition: "acquire" (the full run) or "verify" (--verify-only)
    collectPc,          \* verifyVendor and the delay behind it: where the call stands
    pageAt,             \* verifyVendor: the index in PAGES_TO_CHECK of the next page
    allContent,         \* verifyVendor: the text of the pages fetched so far
    pagesChecked,       \* verifyVendor: the paths of the pages that gave text
    currentReport,      \* the verificationReport of this pass of the loop, none or one
    inFlight,           \* the requests that were issued and have not completed
    waited,             \* seconds since the last delay timer was set, up to the delay
    responses,          \* history: what came back for each page of the vendor at hand
    requested,          \* history: per vendor, how often the probe and each page were requested
    reportFileThere,    \* data/verification-report.json exists
    newVendorsFile,     \* data/acquire/new-vendors.json (no entry: the file is missing)
    summaryFile         \* data/acquire/summary.md: a line per entry

reviewVars == <<registry, g2Raw, capterraRaw, aggregated, previous, today, pc,
                unparseable, exitCode>>
classifyVars == <<verificationResults, classifications>>
acquireVars == <<existingVendors, discovered, log, newVendors, reports,
                 newEntries, acquirePc>>
collectVars == <<runMode, collectPc, pageAt, allContent, pagesChecked,
                 currentReport, inFlight, waited, responses, requested>>
fileVars == <<reportFileThere, newVendorsFile, summaryFile>>

vars == <<reviewVars, classifyVars, acquireVars, collectVars, fileVars>>

----------------------------------------------------------------------------
(* Bounds *)

MaxDay == 2
MaxItems == 2
MaxBatch == 2
MaxFailures == 1

----------------------------------------------------------------------------
(* Values *)

Undef == [t |-> "undef", v |-> 0]
Num(n) == [t |-> "num", v |-> n]
Str == [t |-> "str", v |-> 0]

EmptyUrl == [host |-> "", path |-> <<>>]
Url(h, p) == [host |-> h, path |-> p]

NoSlug == ""
NoMapping == [slug |-> NoSlug, url |-> EmptyUrl]

\* String.prototype.toLowerCase on the identifiers that occur.
ToLower(s) ==
    CASE s = "Osmind" -> "osmind"
      [] s = "Valant" -> "valant"
      [] s = "WWW" -> "www"
      [] s = "Beta" -> "beta"
      [] OTHER -> s

\* /^\d+$/ on the path segments that occur.
IsDigits(s) == s \in {"101", "202"}

\* A host the unanchored pattern g2\.com can match in.
IsG2Host(h) == h \in {"www.g2.com", "g2.com"}
IsCapterraHost(h) == h \in {"www.capterra.com", "capterra.com"}

\* typeof x === 'number' && Number.isFinite(x)
IsFiniteNumber(x) == x.t = "num"

\* a ?? b
Coalesce(a, b) == IF a.t = "undef" THEN b ELSE a

\* a || b on URLs: the empty string, null and undefined are falsy
UrlOr(a, b) == IF a = EmptyUrl THEN b ELSE a

\* Math.round(x / d) for d > 0: the nearest integer, a half going up.
RoundDiv(x, d) == (2 * x + d) \div (2 * d)

----------------------------------------------------------------------------
(* The pure functions of aggregate-reviews.mjs *)

\* /g2\.com\/products\/([^/]+)/
extractG2Slug(url) ==
    IF IsG2Host(url.host) /\ Len(url.path) >= 2 /\ url.path[1] = "products"
    THEN url.path[2] ELSE NoSlug

\* /capterra\.com\/p\/\d+\/([^/]+)/, lowercased
extractCapterraSlug(url) ==
    IF IsCapterraHost(url.host) /\ Len(url.path) >= 3 /\ url.path[1] = "p"
       /\ IsDigits(url.path[2])
    THEN ToLower(url.path[3]) ELSE NoSlug

\* A slip: a vendor without a mapping for the source is matched by its own slug.
mapToVendorSlugOrOwnSlug(platformSlug, source, mappings) ==
    LET hit(i) == IF mappings[i][source].slug # NoSlug
                  THEN ToLower(mappings[i][source].slug) = ToLower(platformSlug)
                  ELSE mappings[i].slug = ToLower(platformSlug)
        hits == {i \in DOMAIN mappings : hit(i)}
    IN IF hits = {} THEN NoSlug
       ELSE mappings[CHOOSE i \in hits : \A j \in hits : i <= j].slug

\* The first vendor, in key order, whose mapping for the source has the slug.
mapToVendorSlug(platformSlug, source, mappings) ==
    LET hit(i) == /\ mappings[i][source].slug # NoSlug
                  /\ ToLower(mappings[i][source].slug) = ToLower(platformSlug)
        hits == {i \in DOMAIN mappings : hit(i)}
    IN IF hits = {} THEN NoSlug
       ELSE mappings[CHOOSE i \in hits : \A j \in hits : i <= j].slug

RECURSIVE SumCount(_)
SumCount(sources) ==
    IF sources = <<>> THEN 0 ELSE Head(sources).count + SumCount(Tail(sources))

RECURSIVE WeightedSum(_)
WeightedSum(sources) ==
    IF sources = <<>> THEN 0
    ELSE Head(sources).score * Head(sources).count + WeightedSum(Tail(sources))

\* A slip: the total taken over one entry per source name (the last), as the
\* change detection sees the sources.
TotalCountPerSourceName(sources) ==
    LET names == {sources[i].source : i \in DOMAIN sources}
        last(n) == sources[CHOOSE i \in DOMAIN sources :
                        /\ sources[i].source = n
                        /\ \A j \in DOMAIN sources : sources[j].source = n => j <= i]
        count(n) == last(n).count
    IN (IF "g2" \in names THEN count("g2") ELSE 0)
       + (IF "capterra" \in names THEN count("capterra") ELSE 0)

\* data.sources.reduce((sum, s) => sum + s.count, 0)
TotalCount(sources) == SumCount(sources)

RECURSIVE SumScore(_)
SumScore(sources) ==
    IF sources = <<>> THEN 0 ELSE Head(sources).score + SumScore(Tail(sources))

\* A slip: the plain mean of the scores, the counts ignored.
calculateAggregateUnweighted(sources) ==
    IF Len(sources) = 0 THEN Undef
    ELSE IF SumCount(sources) = 0 THEN Undef
    ELSE Num(RoundDiv(SumScore(sources), Len(sources)))

\* Math.round((weightedSum / totalCount) * 10) / 10, in tenths; null when empty
calculateAggregate(sources) ==
    IF Len(sources) = 0 THEN Undef
    ELSE IF SumCount(sources) = 0 THEN Undef
    ELSE Num(RoundDiv(WeightedSum(sources), SumCount(sources)))

\* Object.keys(mappings.vendors)
VendorSlugs(mappings) == {mappings[i].slug : i \in DOMAIN mappings}

\* The record every registry vendor starts a run with.
InitResult(mappings, prev, date) ==
    [slug \in VendorSlugs(mappings) |->
        [aggregateScore |-> Undef,
         totalCount |-> 0,
         sources |-> <<>>,
         lastAggregated |->
            IF slug \in DOMAIN prev THEN prev[slug].lastAggregated ELSE date]]

getMappedUrl(mappings, vendorSlug, source) ==
    LET i == CHOOSE k \in DOMAIN mappings : mappings[k].slug = vendorSlug
    IN mappings[i][source].url

\* previous?.[vendorSlug]?.sources?.find(s => s.source === source): the first
\* entry of that source, as a sequence of no or one entry.
getPreviousSource(prev, vendorSlug, source) ==
    IF vendorSlug \notin DOMAIN prev THEN <<>>
    ELSE LET ss == prev[vendorSlug].sources
             at == {i \in DOMAIN ss : ss[i].source = source}
         IN IF at = {} THEN <<>>
            ELSE <<ss[CHOOSE i \in at : \A j \in at : i <= j]>>

makeSource(prev, date, vendorSlug, source, score, count, url) ==
    LET p == getPreviousSource(prev, vendorSlug, source)
        roundedScore == RoundDiv(score, 10)
        unchanged == /\ p # <<>>
                     /\ p[1].score = roundedScore
                     /\ p[1].count = count
                     /\ p[1].url = url
    IN [source |-> source,
        score |-> roundedScore,
        count |-> count,
        url |-> url,
        lastUpdated |-> IF unchanged THEN p[1].lastUpdated ELSE date]

\* `https://www.g2.com/products/${g2Slug}/reviews`
G2ReviewsUrl(g2Slug) == Url("www.g2.com", <<"products", g2Slug, "reviews">>)

\* One pass of the G2 loop body: the result after the item.
G2Item(item, result, mappings, prev, date) ==
    LET url == UrlOr(item.productUrl, item.url)
        g2Slug == extractG2Slug(url)
        vendorSlug == mapToVendorSlug(g2Slug, "g2", mappings)
        score == Coalesce(item.rating, item.overallRating)
        count == Coalesce(Coalesce(item.reviewCount, item.totalReviews), Num(0))
    IN IF g2Slug = NoSlug THEN result
       ELSE IF vendorSlug = NoSlug THEN result
       ELSE IF IsFiniteNumber(score) /\ count.t = "num" /\ count.v > 0
       THEN LET reviewUrl == UrlOr(getMappedUrl(mappings, vendorSlug, "g2"),
                                   G2ReviewsUrl(g2Slug))
            IN [result EXCEPT ![vendorSlug].sources =
                   Append(@, makeSource(prev, date, vendorSlug, "g2",
                                        score.v, count.v, reviewUrl))]
       ELSE result

\* One pass of the Capterra loop body.
CapterraItem(item, result, mappings, prev, date) ==
    LET url == UrlOr(item.url, item.productUrl)
        capterraSlug == extractCapterraSlug(url)
        vendorSlug == mapToVendorSlug(capterraSlug, "capterra", mappings)
        score == Coalesce(item.overallRating, item.rating)
        count == Coalesce(Coalesce(item.reviewCount, item.totalReviews), Num(0))
    IN IF capterraSlug = NoSlug THEN result
       ELSE IF vendorSlug = NoSlug THEN result
       ELSE IF IsFiniteNumber(score) /\ count.t = "num" /\ count.v > 0
       THEN LET reviewUrl == UrlOr(getMappedUrl(mappings, vendorSlug, "capterra"),
                                   url)
            IN [result EXCEPT ![vendorSlug].sources =
                   Append(@, makeSource(prev, date, vendorSlug, "capterra",
                                        score.v, count.v, reviewUrl))]
       ELSE result

RECURSIVE G2Loop(_, _, _, _, _)
G2Loop(items, result, mappings, prev, date) ==
    IF items = <<>> THEN result
    ELSE G2Loop(Tail(items), G2Item(Head(items), result, mappings, prev, date),
                mappings, prev, date)

RECURSIVE CapterraLoop(_, _, _, _, _)
CapterraLoop(items, result, mappings, prev, date) ==
    IF items = <<>> THEN result
    ELSE CapterraLoop(Tail(items),
                      CapterraItem(Head(items), result, mappings, prev, date),
                      mappings, prev, date)

\* if (Array.isArray(raw)) { for (const item of raw) ... }: a missing dump is skipped
ProcessG2(raw, result, mappings, prev, date) ==
    IF raw.kind = "array" THEN G2Loop(raw.items, result, mappings, prev, date)
    ELSE result

ProcessCapterra(raw, result, mappings, prev, date) ==
    IF raw.kind = "array" THEN CapterraLoop(raw.items, result, mappings, prev, date)
    ELSE result

\* a.source.localeCompare(b.source) < 0
SourceBefore(a, b) == a = "capterra" /\ b = "g2"

\* e put into a sorted list behind every entry that does not come after it
InsertSorted(e, sorted) ==
    LET later == {i \in DOMAIN sorted : SourceBefore(e.source, sorted[i].source)}
        k == IF later = {} THEN Len(sorted) + 1
             ELSE CHOOSE i \in later : \A j \in later : i <= j
    IN SubSeq(sorted, 1, k - 1) \o <<e>> \o SubSeq(sorted, k, Len(sorted))

\* A slip: the sources stay in the order the loops pushed them.
SortSourcesAsPushed(sources) == sources

\* Array.prototype.sort with the comparator above: stable
RECURSIVE SortSources(_)
SortSources(sources) ==
    IF sources = <<>> THEN <<>>
    ELSE InsertSorted(sources[Len(sources)],
                      SortSources(SubSeq(sources, 1, Len(sources) - 1)))

\* new Map(sources.map(s => [s.source, s])): the last entry of a source wins
BySource(sources) ==
    [src \in {sources[i].source : i \in DOMAIN sources} |->
        LET at == {i \in DOMAIN sources : sources[i].source = src}
        IN sources[CHOOSE i \in at : \A j \in at : i >= j]]

\* The change detection of one vendor
Changed(prevSources, currSources) ==
    LET prevBySource == BySource(prevSources)
        currBySource == BySource(currSources)
        allSources == DOMAIN prevBySource \cup DOMAIN currBySource
    IN \E source \in allSources :
          \/ source \notin DOMAIN prevBySource /\ source \in DOMAIN currBySource
          \/ source \in DOMAIN prevBySource /\ source \notin DOMAIN currBySource
          \/ /\ source \in DOMAIN prevBySource
             /\ source \in DOMAIN currBySource
             /\ \/ prevBySource[source].score # currBySource[source].score
                \/ prevBySource[source].count # currBySource[source].count

\* A slip: every run stamps lastAggregated, changed or not.
FinalizeAlwaysStamps(slug, data, prev, date) ==
    LET sorted == SortSources(data.sources)
    IN [aggregateScore |-> calculateAggregate(sorted),
        totalCount |-> TotalCount(sorted),
        sources |-> sorted,
        lastAggregated |-> date]

\* The body of the closing loop, for one vendor
Finalize(slug, data, prev, date) ==
    LET sorted == SortSources(data.sources)
        prevSources == IF slug \in DOMAIN prev THEN prev[slug].sources ELSE <<>>
    IN [aggregateScore |-> calculateAggregate(sorted),
        totalCount |-> TotalCount(sorted),
        sources |-> sorted,
        lastAggregated |->
            IF Changed(prevSources, sorted) THEN date
            ELSE IF slug \in DOMAIN prev THEN prev[slug].lastAggregated
            ELSE data.lastAggregated]

\* A slip: `changed` declared outside the closing loop, so that once a vendor
\* has changed every later vendor is stamped too.
aggregateSharedChangedFlag(mappings, prev, g2, capterra, date) ==
    LET r0 == InitResult(mappings, prev, date)
        r1 == ProcessG2(g2, r0, mappings, prev, date)
        r2 == ProcessCapterra(capterra, r1, mappings, prev, date)
        fin(slug) == Finalize(slug, r2[slug], prev, date)
        changedAt(i) ==
            Changed(IF mappings[i].slug \in DOMAIN prev
                    THEN prev[mappings[i].slug].sources ELSE <<>>,
                    fin(mappings[i].slug).sources)
        index(slug) == CHOOSE i \in DOMAIN mappings : mappings[i].slug = slug
    IN [slug \in DOMAIN r2 |->
          IF \E j \in 1..(index(slug) - 1) : changedAt(j)
          THEN [fin(slug) EXCEPT !.lastAggregated = date]
          ELSE fin(slug)]

\* A slip: vendors without reviews left out of the output.
aggregateSparse(mappings, prev, g2, capterra, date) ==
    LET r0 == InitResult(mappings, prev, date)
        r1 == ProcessG2(g2, r0, mappings, prev, date)
        r2 == ProcessCapterra(capterra, r1, mappings, prev, date)
    IN [slug \in {x \in DOMAIN r2 : r2[x].sources # <<>>} |->
          Finalize(slug, r2[slug], prev, date)]

\* aggregate(): what one run writes to aggregated-reviews.json
aggregate(mappings, prev, g2, capterra, date) ==
    LET r0 == InitResult(mappings, prev, date)
        r1 == ProcessG2(g2, r0, mappings, prev, date)
        r2 == ProcessCapterra(capterra, r1, mappings, prev, date)
    IN [slug \in DOMAIN r2 |-> Finalize(slug, r2[slug], prev, date)]

----------------------------------------------------------------------------
(* The validation gate of aggregated-reviews.json                           *)
(* (scripts/validation/validate-aggregated-reviews.mjs).  Each check is the *)
(* set of the errors it pushes; the gate passes when no error is pushed.    *)

validSources == {"g2", "capterra"}

\* /^\d{4}-\d{2}-\d{2}$/ on a date: every day number prints as YYYY-MM-DD
isIsoDate(value) == value \in Nat

\* The checks of one entry of a sources array (scores are in tenths).
ValidateSource(source) ==
    (IF source.source \notin validSources THEN {"source"} ELSE {})
    \cup (IF source.score < 0 \/ source.score > 50 THEN {"score"} ELSE {})
    \cup (IF source.count < 0 THEN {"count"} ELSE {})
    \cup (IF source.url = EmptyUrl THEN {"url"} ELSE {})
    \cup (IF ~isIsoDate(source.lastUpdated) THEN {"lastUpdated"} ELSE {})

\* sourceTotal: the counts that passed their check, added up
RECURSIVE SourceTotal(_)
SourceTotal(sources) ==
    IF sources = <<>> THEN 0
    ELSE (IF Head(sources).count < 0 THEN 0 ELSE Head(sources).count)
         + SourceTotal(Tail(sources))

\* The checks of one vendor's record.
ValidateRecord(data) ==
    (IF data.aggregateScore # Undef
        /\ (data.aggregateScore.t # "num"
            \/ data.aggregateScore.v < 0 \/ data.aggregateScore.v > 50)
     THEN {"aggregateScore"} ELSE {})
    \cup (IF data.totalCount < 0 THEN {"totalCount"} ELSE {})
    \cup UNION {ValidateSource(data.sources[i]) : i \in DOMAIN data.sources}
    \cup (IF data.totalCount # SourceTotal(data.sources)
          THEN {"reconcile"} ELSE {})
    \cup (IF ~isIsoDate(data.lastAggregated) THEN {"lastAggregated"} ELSE {})

\* validate(): the errors of the whole file
validate(reviews) == UNION {ValidateRecord(reviews[slug]) : slug \in DOMAIN reviews}

----------------------------------------------------------------------------
(* The inputs *)

NoFile == <<>>
MissingDump == [kind |-> "missing", items |-> <<>>]
ArrayDump(items) == [kind |-> "array", items |-> items]

Item(productUrl, url, rating, overallRating, reviewCount, totalReviews) ==
    [productUrl |-> productUrl, url |-> url, rating |-> rating,
     overallRating |-> overallRating, reviewCount |-> reviewCount,
     totalReviews |-> totalReviews]

\* osmind on G2: 4.0 from 10 reviews
g2Osmind ==
    Item(Url("www.g2.com", <<"products", "osmind">>), EmptyUrl,
         Num(400), Undef, Num(10), Undef)
\* osmind on G2 under another spelling and other field names: 4.96 from 20
g2OsmindAlt ==
    Item(EmptyUrl, Url("g2.com", <<"products", "Osmind", "reviews">>),
         Undef, Num(496), Undef, Num(20))
\* osmind on Capterra: 4.5 from 20
capterraOsmind ==
    Item(EmptyUrl, Url("www.capterra.com", <<"p", "101", "Osmind">>),
         Undef, Num(450), Num(20), Undef)
\* valant on Capterra: 3.0 from 5
capterraValant ==
    Item(Url("capterra.com", <<"p", "202", "valant", "reviews">>), EmptyUrl,
         Num(300), Undef, Undef, Num(5))

G2Pool == {g2Osmind, g2OsmindAlt}
CapterraPool == {capterraOsmind}

SeqsUpTo(S, n) == UNION {[1..k -> S] : k \in 0..n}

G2Dumps == {ArrayDump(items) : items \in SeqsUpTo(G2Pool, MaxItems)}
CapterraDumps == {ArrayDump(items) : items \in SeqsUpTo(CapterraPool, MaxItems)}

\* Raw items the extractor has to pass over, and two whose score is off the
\* scale of 0 to 5 (a negative score, a score of 6).
g2Unmapped ==
    Item(Url("www.g2.com", <<"products", "zeta">>), EmptyUrl,
         Num(400), Undef, Num(10), Undef)
g2Foreign ==
    Item(Url("www.example.com", <<"products", "osmind">>), EmptyUrl,
         Num(400), Undef, Num(10), Undef)
g2NoScore ==
    Item(Url("www.g2.com", <<"products", "osmind">>), EmptyUrl,
         Undef, Undef, Num(10), Undef)
g2StringScore ==
    Item(Url("www.g2.com", <<"products", "osmind">>), EmptyUrl,
         Str, Num(400), Num(10), Undef)
g2NegativeScore ==
    Item(Url("www.g2.com", <<"products", "osmind">>), EmptyUrl,
         Num(-100), Undef, Num(5), Undef)
\* a rating on a ten-point scale: 6.0 from 5 reviews
g2OutOfScale ==
    Item(Url("www.g2.com", <<"products", "osmind">>), EmptyUrl,
         Num(600), Undef, Num(5), Undef)
g2ZeroCount ==
    Item(Url("www.g2.com", <<"products", "osmind">>), EmptyUrl,
         Num(400), Undef, Num(0), Num(7))
g2NegativeCount ==
    Item(Url("www.g2.com", <<"products", "osmind">>), EmptyUrl,
         Num(400), Undef, Num(-3), Undef)
g2StringCount ==
    Item(Url("www.g2.com", <<"products", "osmind">>), EmptyUrl,
         Num(400), Undef, Str, Undef)
g2NoCount ==
    Item(Url("www.g2.com", <<"products", "osmind">>), EmptyUrl,
         Num(400), Undef, Undef, Undef)
capterraUnmapped ==
    Item(EmptyUrl, Url("www.capterra.com", <<"p", "101", "zeta">>),
         Undef, Num(450), Num(20), Undef)
capterraNoId ==
    Item(EmptyUrl, Url("www.capterra.com", <<"p", "valant">>),
         Undef, Num(450), Num(20), Undef)
capterraNegativeScore ==
    Item(EmptyUrl, Url("www.capterra.com", <<"p", "202", "Valant">>),
         Undef, Num(-50), Num(4), Undef)
capterraNoCount ==
    Item(EmptyUrl, Url("www.capterra.com", <<"p", "202", "valant">>),
         Undef, Num(450), Undef, Undef)

G2DropPool ==
    {g2Osmind, g2Unmapped, g2Foreign, g2NoScore, g2StringScore, g2NegativeScore,
     g2OutOfScale, g2ZeroCount, g2NegativeCount, g2StringCount, g2NoCount}
CapterraDropPool ==
    {capterraValant, capterraUnmapped, capterraNoId, capterraNegativeScore,
     capterraNoCount}

G2DropDumps == {ArrayDump(items) : items \in SeqsUpTo(G2DropPool, MaxItems)}
CapterraDropDumps ==
    {ArrayDump(items) : items \in SeqsUpTo(CapterraDropPool, MaxItems)}

\* The files of data/reviews the run reads.
ReviewFiles == {"mappings", "aggregated", "g2", "capterra"}

\* loadJson(filePath): the parsed content; null (the value of a missing file)
\* when the file is missing or JSON.parse throws.
loadJson(filePath, content, null) ==
    IF filePath \in unparseable THEN null ELSE content

Vendor(slug, g2, capterra) == [slug |-> slug, g2 |-> g2, capterra |-> capterra]
Mapping(slug, url) == [slug |-> slug, url |-> url]

\* G2 without a canonical URL; valant has no G2 mapping
RegistryA ==
    <<Vendor("osmind",
             Mapping("osmind", EmptyUrl),
             Mapping("Osmind", Url("www.capterra.com", <<"p", "101", "Osmind">>))),
      Vendor("valant",
             NoMapping,
             Mapping("valant", EmptyUrl))>>
\* canonical G2 URLs; both vendors claim the same G2 product, osmind has no
\* Capterra mapping and valant claims the Capterra product "osmind"
RegistryB ==
    <<Vendor("osmind",
             Mapping("osmind", Url("www.g2.com", <<"products", "osmind", "reviews">>)),
             NoMapping),
      Vendor("valant",
             Mapping("Osmind", Url("www.g2.com", <<"products", "osmind">>)),
             Mapping("osmind", EmptyUrl))>>

Registries == {RegistryA, RegistryB}

----------------------------------------------------------------------------
(* The state machine: the dumps are produced, the date advances, and        *)
(* aggregate() runs.  The registry is fixed from the start.                 *)

\* classify.mjs has not been started: no report file is read.
ClassifierIdle ==
    /\ verificationResults = <<>>
    /\ classifications = <<>>

\* The acquisition agent has not been started.
AcquisitionIdle ==
    /\ existingVendors = <<>>
    /\ discovered = [g2 |-> <<>>, capterra |-> <<>>]
    /\ log = <<>>
    /\ newVendors = <<>>
    /\ reports = <<>>
    /\ newEntries = <<>>
    /\ acquirePc = "idle"

\* No call of verifyVendor is under way and none has been made.
CollectorIdle ==
    /\ runMode = "acquire"
    /\ collectPc = "idle"
    /\ pageAt = 1
    /\ allContent = <<>>
    /\ pagesChecked = <<>>
    /\ currentReport = <<>>
    /\ inFlight = {}
    /\ waited = 0
    /\ responses = <<>>
    /\ requested = <<>>

\* The report file is there; no acquisition run has written its output yet.
NoOutputYet ==
    /\ reportFileThere = TRUE
    /\ newVendorsFile = NoFile
    /\ summaryFile = NoFile

Init ==
    /\ registry \in Registries
    /\ g2Raw = MissingDump
    /\ capterraRaw = MissingDump
    /\ aggregated = NoFile
    /\ previous = NoFile
    /\ today = 1
    /\ pc = "scrape"
    /\ unparseable = {}
    /\ exitCode = 0
    /\ ClassifierIdle
    /\ AcquisitionIdle
    /\ CollectorIdle
    /\ NoOutputYet

\* The G2 scraper leaves a new g2-raw.json; a run reads MaxItems items at most.
WriteG2Raw ==
    /\ pc = "scrape"
    /\ \E d \in G2Dumps :
          /\ Len(d.items) + Len(capterraRaw.items) <= MaxItems
          /\ g2Raw' = d
    /\ unparseable' = unparseable \ {"g2"}
    /\ UNCHANGED <<registry, capterraRaw, aggregated, previous, today, pc, exitCode>>
    /\ UNCHANGED <<classifyVars, acquireVars, collectVars, fileVars>>

\* The Capterra scraper leaves a new capterra-raw.json.
WriteCapterraRaw ==
    /\ pc = "scrape"
    /\ \E d \in CapterraDumps :
          /\ Len(g2Raw.items) + Len(d.items) <= MaxItems
          /\ capterraRaw' = d
    /\ unparseable' = unparseable \ {"capterra"}
    /\ UNCHANGED <<registry, g2Raw, aggregated, previous, today, pc, exitCode>>
    /\ UNCHANGED <<classifyVars, acquireVars, collectVars, fileVars>>

\* A day passes.
Tick ==
    /\ pc = "scrape"
    /\ today < MaxDay
    /\ today' = today + 1
    /\ UNCHANGED <<registry, g2Raw, capterraRaw, aggregated, previous, pc,
                   unparseable, exitCode>>
    /\ UNCHANGED <<classifyVars, acquireVars, collectVars, fileVars>>

\* node scripts/aggregate-reviews.mjs: without mappings the run exits with
\* code 1 before it loads anything else; otherwise it loads the snapshot and
\* the dumps, writes aggregated-reviews.json and ends with code 0.
Aggregate ==
    /\ pc' = "done"
    /\ IF "mappings" \in unparseable
       THEN /\ exitCode' = 1
            /\ UNCHANGED <<aggregated, previous, unparseable>>
       ELSE /\ previous' = loadJson("aggregated", aggregated, NoFile)
            /\ aggregated' = aggregate(registry, previous',
                                       loadJson("g2", g2Raw, MissingDump),
                                       loadJson("capterra", capterraRaw, MissingDump),
                                       today)
            /\ unparseable' = unparseable \ {"aggregated"}
            /\ exitCode' = 0
    /\ UNCHANGED <<registry, g2Raw, capterraRaw, today>>
    /\ UNCHANGED <<classifyVars, acquireVars, collectVars, fileVars>>

\* The next scrape begins; the file of the last run is what the next run will load.
NextCycle ==
    /\ pc = "done"
    /\ pc' = "scrape"
    /\ previous' = aggregated
    /\ UNCHANGED <<registry, g2Raw, capterraRaw, aggregated, today,
                   unparseable, exitCode>>
    /\ UNCHANGED <<classifyVars, acquireVars, collectVars, fileVars>>

Next ==
    \/ WriteG2Raw
    \/ WriteCapterraRaw
    \/ Tick
    \/ Aggregate
    \/ NextCycle

Spec == Init /\ [][Next]_vars

\* The same runs over dumps that hold items the extractor has to pass over.
WriteG2RawAny ==
    /\ pc = "scrape"
    /\ \E d \in G2DropDumps :
          /\ Len(d.items) + Len(capterraRaw.items) <= MaxItems
          /\ g2Raw' = d
    /\ unparseable' = unparseable \ {"g2"}
    /\ UNCHANGED <<registry, capterraRaw, aggregated, previous, today, pc, exitCode>>
    /\ UNCHANGED <<classifyVars, acquireVars, collectVars, fileVars>>

WriteCapterraRawAny ==
    /\ pc = "scrape"
    /\ \E d \in CapterraDropDumps :
          /\ Len(g2Raw.items) + Len(d.items) <= MaxItems
          /\ capterraRaw' = d
    /\ unparseable' = unparseable \ {"capterra"}
    /\ UNCHANGED <<registry, g2Raw, aggregated, previous, today, pc, exitCode>>
    /\ UNCHANGED <<classifyVars, acquireVars, collectVars, fileVars>>

NextDrop ==
    \/ WriteG2RawAny
    \/ WriteCapterraRawAny
    \/ Tick
    \/ Aggregate
    \/ NextCycle

SpecDrop == Init /\ [][NextDrop]_vars

\* A file of data/reviews is left with text that is no JSON (a cut-off write,
\* a merge conflict marker, a hand edit).
Damage ==
    /\ pc = "scrape"
    /\ \E file \in ReviewFiles \ unparseable :
          unparseable' = unparseable \cup {file}
    /\ UNCHANGED <<registry, g2Raw, capterraRaw, aggregated, previous, today, pc,
                   exitCode>>
    /\ UNCHANGED <<classifyVars, acquireVars, collectVars, fileVars>>

NextDamage ==
    \/ WriteG2Raw
    \/ WriteCapterraRaw
    \/ Tick
    \/ Aggregate
    \/ NextCycle
    \/ Damage

\* The runs over files that may be unparseable.
SpecDamage == Init /\ [][NextDamage]_vars

----------------------------------------------------------------------------
(* The classification agent (scripts/agents/acquire/classify.mjs).  A       *)
(* verification report carries website_live and the two keyword scans; a    *)
(* scan is null or a count with the list of the keywords that matched.      *)

MaxMentions == 6
MaxPsychiatryMentions == 4

\* THRESHOLDS
SpecificKetamineMentions == 5
CompatibleKetamineMentions == 1
CompatiblePsychiatryMentions == 3

NoEvidence == [null |-> TRUE, count |-> 0, matches |-> <<>>]
Evidence(count, matches) == [null |-> FALSE, count |-> count, matches |-> matches]
Match(keyword) == [keyword |-> keyword, count |-> 1]

Report(website_live, ketamine_evidence, psychiatry_evidence) ==
    [website_live |-> website_live,
     ketamine_evidence |-> ketamine_evidence,
     psychiatry_evidence |-> psychiatry_evidence]

\* The shorter strings of the classifier's substring lists that a keyword of
\* the two vocabularies contains, the keyword itself apart.
ProperSubstrings(keyword) ==
    CASE keyword = "esketamine" -> {"ketamine"}
      [] keyword = "iv infusion" -> {"iv ", "infusion"}
      [] keyword = "im injection" -> {"im "}
      [] keyword = "infusion clinic" -> {"infusion"}
      [] keyword = "infusion therapy" -> {"infusion"}
      [] keyword = "phq-9" -> {"phq"}
      [] keyword = "gad-7" -> {"gad"}
      [] keyword = "rating scales" -> {"rating scale"}
      [] keyword = "outcome measures" -> {"outcome measure"}
      [] OTHER -> {}

\* keyword.includes(k)
Includes(keyword, k) == k = keyword \/ k \in ProperSubstrings(keyword)

\* The keywords of evidence?.matches, none when the scan is null
MatchedKeywords(evidence) ==
    IF evidence.null THEN {}
    ELSE {evidence.matches[i].keyword : i \in DOMAIN evidence.matches}

Classification(classification, reason, confidence) ==
    [classification |-> classification, reason |-> reason, confidence |-> confidence]

\* A slip: the counts are looked at before website_live.
classifyVendorCountsFirst(verificationReport) ==
    LET ketamineCount == verificationReport.ketamine_evidence.count
        psychiatryCount == verificationReport.psychiatry_evidence.count
        hasKetamineKeyword ==
            \E keyword \in MatchedKeywords(verificationReport.ketamine_evidence) :
                keyword \in {"ketamine", "spravato", "esketamine"}
    IN IF ketamineCount >= SpecificKetamineMentions /\ hasKetamineKeyword
       THEN Classification("ketamine_specific", "ketamine mentions with specific keywords",
                           "high")
       ELSE IF \/ ketamineCount >= CompatibleKetamineMentions
               \/ psychiatryCount >= CompatiblePsychiatryMentions
       THEN Classification("ketamine_compatible",
                           IF ketamineCount > 0 THEN "ketamine mentions"
                           ELSE "psychiatry mentions",
                           IF ketamineCount > 0 THEN "medium" ELSE "low")
       ELSE IF ~verificationReport.website_live
       THEN Classification("unknown", "Website unavailable for verification", "low")
       ELSE Classification("general_ehr", "No evidence found", "high")

\* A slip: more than five mentions asked for, not five.
classifyVendorStrictThreshold(verificationReport) ==
    LET ketamineCount == verificationReport.ketamine_evidence.count
        psychiatryCount == verificationReport.psychiatry_evidence.count
        hasKetamineKeyword ==
            \E keyword \in MatchedKeywords(verificationReport.ketamine_evidence) :
                keyword \in {"ketamine", "spravato", "esketamine"}
    IN IF ~verificationReport.website_live
       THEN Classification("unknown", "Website unavailable for verification", "low")
       ELSE IF ketamineCount > SpecificKetamineMentions /\ hasKetamineKeyword
       THEN Classification("ketamine_specific", "ketamine mentions with specific keywords",
                           "high")
       ELSE IF \/ ketamineCount >= CompatibleKetamineMentions
               \/ psychiatryCount >= CompatiblePsychiatryMentions
       THEN Classification("ketamine_compatible",
                           IF ketamineCount > 0 THEN "ketamine mentions"
                           ELSE "psychiatry mentions",
                           IF ketamineCount > 0 THEN "medium" ELSE "low")
       ELSE Classification("general_ehr", "No evidence found", "high")

\* classifyVendor(verificationReport); a null scan counts as 0 (count || 0).
\* The evidence echoed in the result is left out.
classifyVendor(verificationReport) ==
    LET ketamineCount == verificationReport.ketamine_evidence.count
        psychiatryCount == verificationReport.psychiatry_evidence.count
        hasKetamineKeyword ==
            \E keyword \in MatchedKeywords(verificationReport.ketamine_evidence) :
                keyword \in {"ketamine", "spravato", "esketamine"}
    IN IF ~verificationReport.website_live
       THEN Classification("unknown", "Website unavailable for verification", "low")
       ELSE IF ketamineCount >= SpecificKetamineMentions /\ hasKetamineKeyword
       THEN Classification("ketamine_specific", "ketamine mentions with specific keywords",
                           "high")
       ELSE IF \/ ketamineCount >= CompatibleKetamineMentions
               \/ psychiatryCount >= CompatiblePsychiatryMentions
       THEN Classification("ketamine_compatible",
                           IF ketamineCount > 0 THEN "ketamine mentions"
                           ELSE "psychiatry mentions",
                           IF ketamineCount > 0 THEN "medium" ELSE "low")
       ELSE Classification("general_ehr", "No evidence found", "high")

\* inferKetamineFeatures(verificationReport): only the ketamine scan is read
inferKetamineFeatures(verificationReport) ==
    LET hasKeyword(keywords) ==
            \E keyword \in MatchedKeywords(verificationReport.ketamine_evidence) :
                \E k \in keywords : Includes(ToLower(keyword), k)
    IN [iv_protocols |-> hasKeyword({"iv infusion", "infusion protocol", "infusion clinic"}),
        im_protocols |-> hasKeyword({"im injection", "intramuscular"}),
        spravato_workflows |-> hasKeyword({"spravato", "rems", "esketamine"}),
        outcome_tracking |->
            hasKeyword({"outcome tracking", "outcome measure", "phq-9", "gad-7"}),
        patient_rating_scales |->
            hasKeyword({"rating scale", "phq", "gad", "questionnaire"}),
        ketamine_consent_forms |-> hasKeyword({"consent form", "informed consent"}),
        treatment_series_tracking |->
            hasKeyword({"treatment series", "session tracking", "infusion series"})]

\* The ketamine scans of the reports: no match, a strong keyword, two weak ones.
KetamineMatches ==
    {<<>>, <<Match("spravato")>>, <<Match("iv infusion"), Match("rems")>>}

KetamineScans ==
    {NoEvidence}
    \cup {Evidence(count, matches) : count \in 0..MaxMentions, matches \in KetamineMatches}

PsychiatryScans ==
    {NoEvidence}
    \cup {Evidence(count, IF count = 0 THEN <<>> ELSE <<Match("psychiatry")>>) :
             count \in 0..MaxPsychiatryMentions}

\* The reports verification-report.json may hold: counts and matches of any
\* kind, with the website up or down.
Reports ==
    {Report(live, ke, pe) : live \in BOOLEAN, ke \in KetamineScans, pe \in PsychiatryScans}

\* No review file is there and no aggregation runs.
ReviewsIdle ==
    /\ registry = RegistryA
    /\ g2Raw = MissingDump
    /\ capterraRaw = MissingDump
    /\ aggregated = NoFile
    /\ previous = NoFile
    /\ today = 1
    /\ pc = "scrape"
    /\ unparseable = {}
    /\ exitCode = 0

\* classify.mjs is started on a report file.
InitClassify ==
    /\ ReviewsIdle
    /\ AcquisitionIdle
    /\ CollectorIdle
    /\ NoOutputYet
    /\ verificationResults \in {<<r>> : r \in Reports}
    /\ classifications = <<>>

\* One pass of the loop of classifyAllVendors.
ClassifyResult ==
    /\ Len(classifications) < Len(verificationResults)
    /\ LET result == verificationResults[Len(classifications) + 1]
           classification == classifyVendor(result)
           inferredFeatures == inferKetamineFeatures(result)
       IN classifications' =
             Append(classifications,
                    [classification |-> classification.classification,
                     reason |-> classification.reason,
                     confidence |-> classification.confidence,
                     inferred_features |-> inferredFeatures])
    /\ UNCHANGED <<reviewVars, acquireVars, collectVars, fileVars, verificationResults>>

NextClassify == ClassifyResult

SpecClassify == InitClassify /\ [][NextClassify]_vars

----------------------------------------------------------------------------
(* The acquisition agent (scripts/agents/acquire/index.mjs).  A name and a   *)
(* slug are sequences of characters.  A website is a record [scheme, host,  *)
(* path] with the host as its labels, as written; a text that new URL()     *)
(* rejects has no scheme, and the empty or missing website is NoWebsite.    *)

Alnum ==
    {"a", "b", "c", "d", "e", "f", "g", "h", "i", "j", "k", "l", "m", "n", "o",
     "p", "q", "r", "s", "t", "u", "v", "w", "x", "y", "z",
     "0", "1", "2", "3", "4", "5", "6", "7", "8", "9"}

\* toLowerCase on one character
LowerChar(c) ==
    CASE c = "A" -> "a"
      [] c = "B" -> "b"
      [] c = "D" -> "d"
      [] c = "E" -> "e"
      [] c = "G" -> "g"
      [] c = "H" -> "h"
      [] c = "Z" -> "z"
      [] OTHER -> c

LowerCase(name) == [i \in DOMAIN name |-> LowerChar(name[i])]

\* /[a-z0-9]/
IsAlnum(c) == c \in Alnum

\* A slip: the name is lowercased and trimmed, nothing is stripped.
normalizeNameLowerOnly(name) == LowerCase(name)

\* name.toLowerCase().replace(/[^a-z0-9]/g, '').trim()
normalizeName(name) == SelectSeq(LowerCase(name), IsAlnum)

NoWebsite == [scheme |-> "", host |-> <<>>, path |-> <<>>]
Site(scheme, host, path) == [scheme |-> scheme, host |-> host, path |-> path]

NoDomain == <<>>

\* A slip: the first label is taken off whatever it is.
extractDomainAnyFirstLabel(url) ==
    IF url.scheme = "" THEN NoDomain
    ELSE LET hostname == [i \in DOMAIN url.host |-> ToLower(url.host[i])]
         IN IF Len(hostname) >= 2 THEN Tail(hostname) ELSE hostname

\* new URL(url).hostname.replace(/^www\./, ''); null when new URL throws.
\* The URL parser lowercases the host.
extractDomain(url) ==
    IF url.scheme = "" THEN NoDomain
    ELSE LET hostname == [i \in DOMAIN url.host |-> ToLower(url.host[i])]
         IN IF Len(hostname) >= 2 /\ hostname[1] = "www"
            THEN Tail(hostname) ELSE hostname

NoVendorSlug == <<>>

\* vendorExists(newVendor, existingVendors): the first vendor of the list
\* that matches, by name before by domain.
vendorExists(newVendor, vendors) ==
    LET normalizedNew == normalizeName(newVendor.name)
        newDomain == extractDomain(newVendor.website)
        byName(i) == normalizeName(vendors[i].name) = normalizedNew
        byDomain(i) ==
            LET existingDomain == extractDomain(vendors[i].website)
            IN newDomain # NoDomain /\ existingDomain # NoDomain
               /\ newDomain = existingDomain
        hits == {i \in DOMAIN vendors : byName(i) \/ byDomain(i)}
    IN IF hits = {}
       THEN [exists |-> FALSE, reason |-> "", existing |-> NoVendorSlug]
       ELSE LET i == CHOOSE k \in hits : \A j \in hits : k <= j
            IN [exists |-> TRUE,
                reason |-> IF byName(i) THEN "name match" ELSE "domain match",
                existing |-> vendors[i].slug]

\* .replace(/[^a-z0-9]+/g, '-'): every run of other characters becomes one hyphen
RECURSIVE Hyphenate(_)
Hyphenate(name) ==
    IF name = <<>> THEN <<>>
    ELSE IF IsAlnum(Head(name)) THEN <<Head(name)>> \o Hyphenate(Tail(name))
    ELSE IF Len(name) >= 2 /\ ~IsAlnum(name[2]) THEN Hyphenate(Tail(name))
    ELSE <<"-">> \o Hyphenate(Tail(name))

\* generateSlug(name); .replace(/^-|-$/g, '') takes one hyphen off each end
generateSlug(name) ==
    LET hyphenated == Hyphenate(LowerCase(name))
        front == IF hyphenated # <<>> /\ Head(hyphenated) = "-"
                 THEN Tail(hyphenated) ELSE hyphenated
    IN IF front # <<>> /\ front[Len(front)] = "-"
       THEN SubSeq(front, 1, Len(front) - 1) ELSE front

NoFeatures ==
    [iv_protocols |-> FALSE,
     im_protocols |-> FALSE,
     spravato_workflows |-> FALSE,
     outcome_tracking |-> FALSE,
     patient_rating_scales |-> FALSE,
     ketamine_consent_forms |-> FALSE,
     treatment_series_tracking |-> FALSE]

\* generateSoftwareEntry(vendor, verificationReport, classification): the
\* fields that depend on the arguments.  classification.inferred_features is
\* undefined when the classification has no such field.
generateSoftwareEntry(vendor, verificationReport, classification) ==
    [name |-> vendor.name,
     slug |-> generateSlug(vendor.name),
     website |-> vendor.website,
     software_type |-> classification.classification,
     verification |-> [status |-> "needs_review",
                       verified_by |-> "agent",
                       notes |-> classification.reason],
     ketamine_features |->
        IF "inferred_features" \in DOMAIN classification
        THEN classification.inferred_features ELSE NoFeatures]

\* A match of a keyword found count times
MatchN(keyword, count) == [keyword |-> keyword, count |-> count]

\* verifyVendor when the probe of the website fails
DeadReport == Report(FALSE, NoEvidence, NoEvidence)

\* verifyVendor when the website answers: nothing found; a strong keyword
\* five times; two weak keywords and three psychiatry mentions.
LiveReports ==
    {Report(TRUE, Evidence(0, <<>>), Evidence(0, <<>>)),
     Report(TRUE, Evidence(5, <<MatchN("spravato", 5)>>), Evidence(0, <<>>)),
     Report(TRUE, Evidence(2, <<MatchN("iv infusion", 1), MatchN("rems", 1)>>),
            Evidence(3, <<MatchN("psychiatry", 3)>>))}

\* The reports verifyVendor(vendor) can return: fetch throws on a website
\* that is no URL, and any other website may be down.
verifyVendor(vendor) ==
    IF vendor.website.scheme = "" THEN {DeadReport}
    ELSE {DeadReport} \cup LiveReports

DiscoveredVendor(name, website) ==
    [name |-> name, website |-> website, slug |-> NoVendorSlug]
ExistingVendor(name, slug, website) ==
    [name |-> name, website |-> website, slug |-> slug]

\* The directory: "acme health" at https://acmehealth.com and "Acme" at
\* https://acme.io
ExistingVendors ==
    <<ExistingVendor(<<"a", "c", "m", "e", " ", "h", "e", "a", "l", "t", "h">>,
                     <<"a", "c", "m", "e", "-", "h", "e", "a", "l", "t", "h">>,
                     Site("https", <<"acmehealth", "com">>, <<>>)),
      ExistingVendor(<<"A", "c", "m", "e">>,
                     <<"a", "c", "m", "e">>,
                     Site("https", <<"acme", "io">>, <<>>))>>

\* A directory whose vendor carries a slug shorter than its name: "Beta
\* Health" with the slug beta, at https://betahealth.com
ExistingVendorsOwnSlug ==
    <<ExistingVendor(<<"B", "e", "t", "a", " ", "H", "e", "a", "l", "t", "h">>,
                     <<"b", "e", "t", "a">>,
                     Site("https", <<"betahealth", "com">>, <<>>))>>

\* The directories a run may find in src/content/software.
Directories == {ExistingVendors, ExistingVendorsOwnSlug}

\* "Acme Health!" at https://acmehealth.co
candAcmeHealth ==
    DiscoveredVendor(<<"A", "c", "m", "e", " ", "H", "e", "a", "l", "t", "h", "!">>,
                     Site("https", <<"acmehealth", "co">>, <<>>))
\* "Beta" at https://www.acme.io/pricing
candAcmeIo ==
    DiscoveredVendor(<<"B", "e", "t", "a">>,
                     Site("https", <<"www", "acme", "io">>, <<"pricing">>))
\* "beta" at https://beta.io
candBeta ==
    DiscoveredVendor(<<"b", "e", "t", "a">>, Site("https", <<"beta", "io">>, <<>>))
\* "Gamma" at https://WWW.Beta.io
candGamma ==
    DiscoveredVendor(<<"G", "a", "m", "m", "a">>,
                     Site("https", <<"WWW", "Beta", "io">>, <<>>))
\* "Delta", no website
candDelta ==
    DiscoveredVendor(<<"D", "e", "l", "t", "a">>, NoWebsite)
\* "Epsilon" with the website text "epsilon.io"
candEpsilon ==
    DiscoveredVendor(<<"E", "p", "s", "i", "l", "o", "n">>,
                     Site("", <<"epsilon", "io">>, <<>>))

\* "Zeta 2" at https://zeta.health
candZeta ==
    DiscoveredVendor(<<"Z", "e", "t", "a", " ", "2">>,
                     Site("https", <<"zeta", "health">>, <<>>))

CandidatePool ==
    {candAcmeHealth, candAcmeIo, candBeta, candGamma, candDelta, candEpsilon,
     candZeta}

\* The discovery files: MaxBatch vendors at most in the two of them.
DiscoveryFeeds ==
    UNION {{[g2 |-> g, capterra |-> c] :
               g \in [1..n -> CandidatePool],
               c \in SeqsUpTo(CandidatePool, MaxBatch - n)} : n \in 0..MaxBatch}

\* [...g2Vendors, ...capterraVendors]
AllDiscovered == discovered.g2 \o discovered.capterra

\* newEntries.map((e) => `- ${e.name} (${e.software_type})`): the lines of summary.md
Summary(entries) ==
    [k \in DOMAIN entries |-> <<entries[k].name, entries[k].software_type>>]

\* What an earlier run left in new-vendors.json: one entry, "Zeta 2", whose
\* website was down.
EarlierEntries ==
    <<generateSoftwareEntry(candZeta, DeadReport, classifyVendor(DeadReport))>>

\* data/acquire before the run: no output, or the two files of an earlier run.
EarlierOutput ==
    /\ newVendorsFile \in {NoFile, EarlierEntries}
    /\ summaryFile = Summary(newVendorsFile)

\* runAcquisition has loaded the directory and the discovery files.
InitAcquire ==
    /\ ReviewsIdle
    /\ ClassifierIdle
    /\ CollectorIdle
    /\ reportFileThere = TRUE
    /\ newVendorsFile = NoFile
    /\ summaryFile = NoFile
    /\ existingVendors \in Directories
    /\ discovered \in DiscoveryFeeds
    /\ log = <<>>
    /\ newVendors = <<>>
    /\ reports = <<>>
    /\ newEntries = <<>>
    /\ acquirePc = "dedupe"

\* A slip: the candidates accepted earlier are not looked at.
DedupeExistingOnly ==
    /\ acquirePc = "dedupe"
    /\ Len(log) < Len(AllDiscovered)
    /\ LET vendor == AllDiscovered[Len(log) + 1]
           existsCheck == vendorExists(vendor, existingVendors)
       IN IF vendor.website = NoWebsite
          THEN /\ log' = Append(log, "no website")
               /\ UNCHANGED newVendors
          ELSE IF existsCheck.exists
          THEN /\ log' = Append(log, existsCheck.reason)
               /\ UNCHANGED newVendors
          ELSE /\ log' = Append(log, "added")
               /\ newVendors' = Append(newVendors, vendor)
    /\ UNCHANGED <<reviewVars, classifyVars, collectVars, fileVars>>
    /\ UNCHANGED <<existingVendors, discovered, reports, newEntries, acquirePc>>

\* One pass of the loop over allDiscovered.
Dedupe ==
    /\ acquirePc = "dedupe"
    /\ Len(log) < Len(AllDiscovered)
    /\ LET vendor == AllDiscovered[Len(log) + 1]
           existsCheck == vendorExists(vendor, existingVendors)
           existsInNew == vendorExists(vendor, newVendors)
       IN IF vendor.website = NoWebsite
          THEN /\ log' = Append(log, "no website")
               /\ UNCHANGED newVendors
          ELSE IF existsCheck.exists
          THEN /\ log' = Append(log, existsCheck.reason)
               /\ UNCHANGED newVendors
          ELSE IF existsInNew.exists
          THEN /\ log' = Append(log, "duplicate in discovered list")
               /\ UNCHANGED newVendors
          ELSE /\ log' = Append(log, "added")
               /\ newVendors' = Append(newVendors, vendor)
    /\ UNCHANGED <<reviewVars, classifyVars, collectVars, fileVars>>
    /\ UNCHANGED <<existingVendors, discovered, reports, newEntries, acquirePc>>

\* The loop has ended: with no new vendor the run returns, nothing written.
EndDedupe ==
    /\ acquirePc = "dedupe"
    /\ Len(log) = Len(AllDiscovered)
    /\ acquirePc' = IF Len(newVendors) = 0 THEN "returned" ELSE "process"
    /\ UNCHANGED <<reviewVars, classifyVars, collectVars, fileVars>>
    /\ UNCHANGED <<existingVendors, discovered, log, newVendors, reports, newEntries>>

\* One pass of the loop over newVendors: verify, classify, generate the entry.
ProcessVendor ==
    /\ acquirePc = "process"
    /\ Len(newEntries) < Len(newVendors)
    /\ LET vendor == newVendors[Len(newEntries) + 1]
       IN \E verificationReport \in verifyVendor(vendor) :
             LET classification == classifyVendor(verificationReport)
                 entry == generateSoftwareEntry(vendor, verificationReport,
                                                classification)
             IN /\ reports' = Append(reports, verificationReport)
                /\ newEntries' = Append(newEntries, entry)
    /\ UNCHANGED <<reviewVars, classifyVars, collectVars, fileVars>>
    /\ UNCHANGED <<existingVendors, discovered, log, newVendors, acquirePc>>

\* The loop has ended: fs.writeFileSync(outputPath, ...) writes new-vendors.json.
SaveEntries ==
    /\ acquirePc = "process"
    /\ collectPc = "idle"
    /\ Len(newEntries) = Len(newVendors)
    /\ newVendorsFile' = newEntries
    /\ acquirePc' = "summary"
    /\ UNCHANGED <<reviewVars, classifyVars, collectVars, reportFileThere, summaryFile>>
    /\ UNCHANGED <<existingVendors, discovered, log, newVendors, reports, newEntries>>

\* The second fs.writeFileSync writes summary.md, and the run returns.
WriteSummary ==
    /\ acquirePc = "summary"
    /\ summaryFile' = Summary(newEntries)
    /\ acquirePc' = "saved"
    /\ UNCHANGED <<reviewVars, classifyVars, collectVars, reportFileThere, newVendorsFile>>
    /\ UNCHANGED <<existingVendors, discovered, log, newVendors, reports, newEntries>>

NextAcquire ==
    \/ Dedupe
    \/ EndDedupe
    \/ ProcessVendor
    \/ SaveEntries
    \/ WriteSummary

SpecAcquire == InitAcquire /\ [][NextAcquire]_vars

----------------------------------------------------------------------------
(* The evidence collector (scripts/agents/acquire/verify.mjs) request by    *)
(* request, inside the two runs of runAcquisition: the full run and the     *)
(* run with --verify-only.  A page text is the sequence of the phrases on   *)
(* the page; a keyword occurs in it once for every phrase that contains it. *)
(* An empty text stands for the empty string and for null, which            *)
(* `if (content)` treats alike.  extractPricing is left out.                *)

\* setTimeout(resolve, 2000), in seconds
InterVendorDelay == 2

KETAMINE_KEYWORDS ==
    <<"ketamine", "spravato", "esketamine", "iv infusion", "im injection",
      "intramuscular", "infusion clinic", "infusion therapy", "treatment series",
      "rems">>

PSYCHIATRY_KEYWORDS ==
    <<"psychiatry", "psychiatric", "behavioral health", "mental health",
      "outcome tracking", "phq-9", "gad-7", "rating scales", "outcome measures">>

PAGES_TO_CHECK == <<"", "/pricing", "/features", "/psychiatry", "/solutions", "/about">>

\* The path of a URL that ends in one of the pages
PathSegments(pagePath) ==
    CASE pagePath = "" -> <<>>
      [] pagePath = "/pricing" -> <<"pricing">>
      [] pagePath = "/features" -> <<"features">>
      [] pagePath = "/psychiatry" -> <<"psychiatry">>
      [] pagePath = "/solutions" -> <<"solutions">>
      [] pagePath = "/about" -> <<"about">>

\* new URL(pagePath, vendor.website): the empty path gives the website's own
\* URL, an absolute path replaces the path of the website.
pageUrl(pagePath, website) ==
    LET hostname == [i \in DOMAIN website.host |-> ToLower(website.host[i])]
    IN IF pagePath = "" THEN Site(website.scheme, hostname, website.path)
       ELSE Site(website.scheme, hostname, PathSegments(pagePath))

\* What the sites serve under a URL, markup stripped and lowercased.
\* beta.io names ketamine once, on its home page.  The sites of acme.io are
\* those of a psychiatry product: four psychiatry keywords, three of them on
\* the psychiatry page.  zeta.health has five of the weaker ketamine keywords
\* on its features page and none of the three strong ones.  Every other
\* site is rich: the home page names ketamine once, the pricing page is
\* empty, the features page has the five weaker keywords, the psychiatry
\* page three psychiatry keywords, the solutions page esketamine once and
\* spravato twice.
PageText(url) ==
    LET site == url.host[Len(url.host) - 1]
    IN CASE site = "beta" ->
               (CASE url.path = <<>> -> <<"ketamine">>
                  [] url.path = <<"pricing">> -> <<>>
                  [] OTHER -> <<"ehr">>)
         [] site = "acme" ->
               (CASE url.path = <<>> -> <<"psychiatry">>
                  [] url.path = <<"pricing">> -> <<>>
                  [] url.path = <<"psychiatry">> ->
                        <<"psychiatric", "mental health", "behavioral health">>
                  [] OTHER -> <<"ehr">>)
         [] site = "zeta" ->
               (CASE url.path = <<"features">> ->
                        <<"iv infusion", "im injection", "infusion therapy", "rems",
                          "treatment series">>
                  [] url.path = <<"pricing">> -> <<>>
                  [] OTHER -> <<"ehr">>)
         [] OTHER ->
               (CASE url.path = <<>> -> <<"ketamine">>
                  [] url.path = <<"pricing">> -> <<>>
                  [] url.path = <<"features">> ->
                        <<"iv infusion", "im injection", "infusion therapy", "rems",
                          "treatment series">>
                  [] url.path = <<"psychiatry">> ->
                        <<"psychiatry", "psychiatric", "mental health">>
                  [] url.path = <<"solutions">> ->
                        <<"esketamine", "spravato", "spravato", "behavioral health">>
                  [] OTHER -> <<"ehr", "rating scales">>)

\* How a request ends: a success status, another status, a network error,
\* or the abort of the request's timer.
Outcomes == {"ok", "status", "error", "timeout"}

\* checkWebsite(url): fetch rejects a text that is no URL without a request
ProbeOutcomes(url) == IF url.scheme = "" THEN {"error"} ELSE Outcomes

\* checkWebsite(url).ok
checkWebsite(outcome) == outcome = "ok"

\* What checkWebsite and fetchPageContent make of the end of a request: a
\* response that is ok, or a failure of whatever kind
Answer(outcome) == IF outcome = "ok" THEN "ok" ELSE "failed"

\* fetchPageContent(url): the text, or null
fetchPageContent(url, outcome) == IF outcome = "ok" THEN PageText(url) ELSE <<>>

\* content.match(new RegExp(keyword, 'gi')).length
Occurrences(content, keyword) ==
    Cardinality({i \in DOMAIN content : Includes(content[i], keyword)})

\* The matches of the loop over the keywords, in keyword order
RECURSIVE KeywordMatches(_, _)
KeywordMatches(content, keywords) ==
    IF keywords = <<>> THEN <<>>
    ELSE LET n == Occurrences(content, Head(keywords))
         IN (IF n > 0 THEN <<MatchN(Head(keywords), n)>> ELSE <<>>)
               \o KeywordMatches(content, Tail(keywords))

RECURSIVE SumOfCounts(_)
SumOfCounts(matches) ==
    IF matches = <<>> THEN 0 ELSE Head(matches).count + SumOfCounts(Tail(matches))

\* searchKeywords(content, keywords)
searchKeywords(content, keywords) ==
    IF content = <<>> THEN Evidence(0, <<>>)
    ELSE CHOOSE results \in {Evidence(SumOfCounts(matches), matches) :
                                matches \in {KeywordMatches(content, keywords)}} : TRUE

\* A slip: one psychiatry mention is taken for verification.
verificationStatusAnyPsychiatry(ketamineEvidence, psychiatryEvidence) ==
    IF ketamineEvidence.count >= 5 THEN "verified"
    ELSE IF psychiatryEvidence.count >= 1 THEN "verified"
    ELSE "needs_review"

\* 6. Determine verification status
verificationStatus(ketamineEvidence, psychiatryEvidence) ==
    IF ketamineEvidence.count >= 5 THEN "verified"
    ELSE IF psychiatryEvidence.count >= 3 THEN "verified"
    ELSE "needs_review"

\* The report of verifyVendor when the probe is not ok
websiteDownReport(vendor) ==
    [vendor |-> vendor.slug,
     name |-> vendor.name,
     website_live |-> FALSE,
     ketamine_evidence |-> NoEvidence,
     psychiatry_evidence |-> NoEvidence,
     status |-> "unverified"]

\* The report of verifyVendor after the loop over the pages
websiteLiveReport(vendor, content, checked) ==
    LET ketamineEvidence == searchKeywords(content, KETAMINE_KEYWORDS)
        psychiatryEvidence == searchKeywords(content, PSYCHIATRY_KEYWORDS)
    IN [vendor |-> vendor.slug,
        name |-> vendor.name,
        website_live |-> TRUE,
        pages_checked |-> checked,
        ketamine_evidence |-> ketamineEvidence,
        psychiatry_evidence |-> psychiatryEvidence,
        status |-> verificationStatus(ketamineEvidence, psychiatryEvidence)]

Request(vendor, method, url) == [vendor |-> vendor, method |-> method, url |-> url]

\* The vendors the run verifies, and how many of them it is through with
Batch == IF runMode = "verify" THEN existingVendors ELSE newVendors
Verified == IF runMode = "verify" THEN Len(reports) ELSE Len(newEntries)

NoRequests ==
    [probe |-> 0, answer |-> "none", pages |-> [k \in DOMAIN PAGES_TO_CHECK |-> 0]]

\* The history with one more probe of vendor i, or one more request of its page k
CountProbe(i) ==
    [v \in 1..i |->
        LET old == IF v \in DOMAIN requested THEN requested[v] ELSE NoRequests
        IN IF v = i THEN [old EXCEPT !.probe = @ + 1] ELSE old]
CountPage(i, k) == [requested EXCEPT ![i].pages[k] = @ + 1]

\* The vendors the run may discover: two websites at the root of their
\* host, one whose URL has the path /pricing, and a website text that is no
\* URL.
CollectorPool == {candAcmeIo, candBeta, candEpsilon, candZeta}

CollectorFeeds ==
    {feed \in DiscoveryFeeds :
        /\ feed.capterra = <<>>
        /\ \A k \in DOMAIN feed.g2 : feed.g2[k] \in CollectorPool}

\* verification-report.json as an earlier run of verify.mjs over the directory
\* may have left it: every website down, or every page of every website read.
EarlierReportFiles(vendors) ==
    {[k \in DOMAIN vendors |-> websiteDownReport(vendors[k])],
     [k \in DOMAIN vendors |->
         websiteLiveReport(vendors[k],
                           <<"ketamine", "esketamine", "spravato", "spravato",
                             "behavioral health">>,
                           <<"/", "/solutions">>)]}

\* runAcquisition starts: the directory is loaded; the full run has the
\* discovery files before it, the run with --verify-only the report file of
\* an earlier verification, if there is one.
InitCollect ==
    /\ ReviewsIdle
    /\ runMode \in {"acquire", "verify"}
    /\ existingVendors \in Directories
    /\ IF runMode = "acquire"
       THEN /\ discovered \in CollectorFeeds
            /\ acquirePc = "dedupe"
            /\ reportFileThere = FALSE
            /\ verificationResults = <<>>
       ELSE /\ discovered = [g2 |-> <<>>, capterra |-> <<>>]
            /\ acquirePc = "verify"
            /\ \/ /\ reportFileThere = FALSE
                  /\ verificationResults = <<>>
               \/ /\ reportFileThere = TRUE
                  /\ verificationResults \in EarlierReportFiles(existingVendors)
    /\ classifications = <<>>
    /\ log = <<>>
    /\ newVendors = <<>>
    /\ reports = <<>>
    /\ newEntries = <<>>
    /\ collectPc = "idle"
    /\ pageAt = 1
    /\ allContent = <<>>
    /\ pagesChecked = <<>>
    /\ currentReport = <<>>
    /\ inFlight = {}
    /\ waited = 0
    /\ responses = <<>>
    /\ requested = <<>>
    /\ EarlierOutput

\* verifyVendor(vendor) is called: checkWebsite issues the HEAD request.
IssueProbe ==
    /\ acquirePc \in {"process", "verify"}
    /\ collectPc = "idle"
    /\ Verified < Len(Batch)
    /\ LET i == Verified + 1
       IN /\ inFlight' = inFlight \cup {Request(i, "HEAD", Batch[i].website)}
          /\ requested' = CountProbe(i)
    /\ collectPc' = "probing"
    /\ responses' = <<>>
    /\ UNCHANGED <<runMode, pageAt, allContent, pagesChecked, currentReport, waited>>
    /\ UNCHANGED <<reviewVars, classifyVars, acquireVars, fileVars>>

\* verifyVendor returns the report; the caller keeps it (the run with
\* --verify-only) or classifies it and generates the entry (the full run),
\* and sets the timer of the delay.
EndOfPass(vendor, result) ==
    \E report \in {result} :
        /\ currentReport' = <<report>>
        /\ IF runMode = "verify"
           THEN /\ reports' = Append(reports, report)
                /\ UNCHANGED newEntries
           ELSE /\ newEntries' =
                      Append(newEntries,
                             generateSoftwareEntry(vendor, report,
                                                   classifyVendor(report)))
                /\ UNCHANGED reports
        /\ collectPc' = "sleep"
        /\ waited' = 0
        /\ pageAt' = 1
        /\ allContent' = <<>>
        /\ pagesChecked' = <<>>

\* A slip: checkWebsite without its try/catch, so that a network error or a
\* timeout of the probe ends the run.
CompleteProbeThrows ==
    /\ collectPc = "probing"
    /\ LET i == Verified + 1
           vendor == Batch[i]
       IN \E outcome \in ProbeOutcomes(vendor.website) :
             /\ inFlight' = inFlight \ {Request(i, "HEAD", vendor.website)}
             /\ requested' = [requested EXCEPT ![i].answer = Answer(outcome)]
             /\ IF outcome \in {"error", "timeout"}
                THEN /\ acquirePc' = "failed"
                     /\ collectPc' = "idle"
                     /\ UNCHANGED <<pageAt, allContent, pagesChecked, currentReport,
                                    waited, reports, newEntries>>
                ELSE /\ UNCHANGED acquirePc
                     /\ IF checkWebsite(outcome)
                        THEN /\ collectPc' = "fetch"
                             /\ pageAt' = 1
                             /\ allContent' = <<>>
                             /\ pagesChecked' = <<>>
                             /\ UNCHANGED <<currentReport, waited, reports, newEntries>>
                        ELSE EndOfPass(vendor, websiteDownReport(vendor))
    /\ UNCHANGED <<runMode, responses>>
    /\ UNCHANGED <<reviewVars, classifyVars, fileVars>>
    /\ UNCHANGED <<existingVendors, discovered, log, newVendors>>

\* A slip: the pages are fetched although the probe failed.
CompleteProbeGoesOn ==
    /\ collectPc = "probing"
    /\ LET i == Verified + 1
           vendor == Batch[i]
       IN \E outcome \in ProbeOutcomes(vendor.website) :
             /\ inFlight' = inFlight \ {Request(i, "HEAD", vendor.website)}
             /\ requested' = [requested EXCEPT ![i].answer = Answer(outcome)]
             /\ collectPc' = "fetch"
             /\ pageAt' = 1
             /\ allContent' = <<>>
             /\ pagesChecked' = <<>>
             /\ UNCHANGED <<currentReport, waited, reports, newEntries>>
    /\ UNCHANGED <<runMode, responses>>
    /\ UNCHANGED <<reviewVars, classifyVars, fileVars>>
    /\ UNCHANGED <<existingVendors, discovered, log, newVendors, acquirePc>>

\* The probe ends.  Not ok: verifyVendor returns at once.  Ok: the loop over
\* the pages begins.
CompleteProbe ==
    /\ collectPc = "probing"
    /\ LET i == Verified + 1
           vendor == Batch[i]
       IN \E outcome \in ProbeOutcomes(vendor.website) :
             /\ inFlight' = inFlight \ {Request(i, "HEAD", vendor.website)}
             /\ requested' = [requested EXCEPT ![i].answer = Answer(outcome)]
             /\ IF checkWebsite(outcome)
                THEN /\ collectPc' = "fetch"
                     /\ pageAt' = 1
                     /\ allContent' = <<>>
                     /\ pagesChecked' = <<>>
                     /\ UNCHANGED <<currentReport, waited, reports, newEntries>>
                ELSE EndOfPass(vendor, websiteDownReport(vendor))
    /\ UNCHANGED <<runMode, responses>>
    /\ UNCHANGED <<reviewVars, classifyVars, fileVars>>
    /\ UNCHANGED <<existingVendors, discovered, log, newVendors, acquirePc>>

\* The requests of pages that have failed in this pass over a vendor
RECURSIVE Failures(_)
Failures(outcomes) ==
    IF outcomes = <<>> THEN 0
    ELSE (IF Head(outcomes) = "ok" THEN 0 ELSE 1) + Failures(Tail(outcomes))

\* How a request of a page may end: at most MaxFailures of the pages of one
\* vendor fail.
PageOutcomes == IF Failures(responses) < MaxFailures THEN Outcomes ELSE {"ok"}

\* fetchPageContent issues the GET request of the next page.
IssuePage ==
    /\ collectPc = "fetch"
    /\ pageAt <= Len(PAGES_TO_CHECK)
    /\ LET i == Verified + 1
           url == pageUrl(PAGES_TO_CHECK[pageAt], Batch[i].website)
       IN /\ inFlight' = inFlight \cup {Request(i, "GET", url)}
          /\ requested' = CountPage(i, pageAt)
    /\ collectPc' = "fetching"
    /\ UNCHANGED <<runMode, pageAt, allContent, pagesChecked, currentReport, waited,
                   responses>>
    /\ UNCHANGED <<reviewVars, classifyVars, acquireVars, fileVars>>

\* The request of a page ends: text is added to allContent, anything else is
\* passed over.  Behind the last page the keywords are searched and
\* verifyVendor returns.
CompletePage ==
    /\ collectPc = "fetching"
    /\ LET i == Verified + 1
           vendor == Batch[i]
           pagePath == PAGES_TO_CHECK[pageAt]
           url == pageUrl(pagePath, vendor.website)
       IN \E outcome \in PageOutcomes :
             \E content \in {fetchPageContent(url, outcome)} :
             \E text \in {IF content # <<>> THEN allContent \o content ELSE allContent} :
             \E checked \in {IF content # <<>>
                             THEN Append(pagesChecked,
                                         IF pagePath = "" THEN "/" ELSE pagePath)
                             ELSE pagesChecked} :
                /\ inFlight' = inFlight \ {Request(i, "GET", url)}
                /\ responses' = Append(responses, Answer(outcome))
                /\ IF pageAt < Len(PAGES_TO_CHECK)
                   THEN /\ collectPc' = "fetch"
                        /\ pageAt' = pageAt + 1
                        /\ allContent' = text
                        /\ pagesChecked' = checked
                        /\ UNCHANGED <<currentReport, waited, reports, newEntries>>
                   ELSE EndOfPass(vendor, websiteLiveReport(vendor, text, checked))
    /\ UNCHANGED <<runMode, requested>>
    /\ UNCHANGED <<reviewVars, classifyVars, fileVars>>
    /\ UNCHANGED <<existingVendors, discovered, log, newVendors, acquirePc>>

\* A second of the delay passes.
Elapse ==
    /\ collectPc = "sleep"
    /\ waited < InterVendorDelay
    /\ waited' = waited + 1
    /\ UNCHANGED <<runMode, collectPc, pageAt, allContent, pagesChecked, currentReport,
                   inFlight, responses, requested>>
    /\ UNCHANGED <<reviewVars, classifyVars, acquireVars, fileVars>>

\* A slip: the loop goes on without the delay.
WakeAtOnce ==
    /\ collectPc = "sleep"
    /\ collectPc' = "idle"
    /\ currentReport' = <<>>
    /\ UNCHANGED <<runMode, pageAt, allContent, pagesChecked, inFlight, waited,
                   responses, requested>>
    /\ UNCHANGED <<reviewVars, classifyVars, acquireVars, fileVars>>

\* The timer of the delay fires: the pass of the loop is over.
Wake ==
    /\ collectPc = "sleep"
    /\ waited = InterVendorDelay
    /\ collectPc' = "idle"
    /\ currentReport' = <<>>
    /\ UNCHANGED <<runMode, pageAt, allContent, pagesChecked, inFlight, waited,
                   responses, requested>>
    /\ UNCHANGED <<reviewVars, classifyVars, acquireVars, fileVars>>

\* --verify-only: verifyAllVendors has returned its results; classifyAllVendors
\* looks for verification-report.json and exits when it is not there.
EndVerify ==
    /\ acquirePc = "verify"
    /\ collectPc = "idle"
    /\ Len(reports) = Len(existingVendors)
    /\ acquirePc' = IF reportFileThere THEN "classify" ELSE "exited"
    /\ UNCHANGED <<reviewVars, classifyVars, collectVars, fileVars>>
    /\ UNCHANGED <<existingVendors, discovered, log, newVendors, reports, newEntries>>

\* --verify-only: one pass of the loop of classifyAllVendors over the file.
ClassifyPersisted ==
    /\ acquirePc = "classify"
    /\ ClassifyResult

\* --verify-only: runAcquisition returns the classifications.
ReturnClassifications ==
    /\ acquirePc = "classify"
    /\ Len(classifications) = Len(verificationResults)
    /\ acquirePc' = "returned"
    /\ UNCHANGED <<reviewVars, classifyVars, collectVars, fileVars>>
    /\ UNCHANGED <<existingVendors, discovered, log, newVendors, reports, newEntries>>

NextCollect ==
    \/ Dedupe
    \/ EndDedupe
    \/ IssueProbe
    \/ CompleteProbe
    \/ IssuePage
    \/ CompletePage
    \/ Elapse
    \/ Wake
    \/ SaveEntries
    \/ WriteSummary
    \/ EndVerify
    \/ ClassifyPersisted
    \/ ReturnClassifications

SpecCollect == InitCollect /\ [][NextCollect]_vars

\* The full run alone, over the directory of two vendors and with no output
\* of an earlier run.
InitRun ==
    /\ InitCollect
    /\ runMode = "acquire"
    /\ existingVendors = ExistingVendors
    /\ newVendorsFile = NoFile

NextRun ==
    \/ Dedupe
    \/ EndDedupe
    \/ IssueProbe
    \/ CompleteProbe
    \/ IssuePage
    \/ CompletePage
    \/ Elapse
    \/ Wake
    \/ SaveEntries
    \/ WriteSummary

\* Every request ends, by an answer, an error or its timer (AbortController,
\* 10 s for the probe and 15 s for a page), every setTimeout fires and the
\* synchronous steps run to their end: a step that can be taken is taken.
SpecRunFair == InitRun /\ [][NextRun]_vars /\ WF_vars(NextRun)

----------------------------------------------------------------------------
(* Properties of the written aggregate.  In a state with pc = "done",       *)
(* aggregated is what the last run wrote, previous the snapshot it loaded,  *)
(* g2Raw and capterraRaw the dumps it read and today the date it stamped.   *)

Ran == pc = "done"

Sources(file, slug) == IF slug \in DOMAIN file THEN file[slug].sources ELSE <<>>

\* Sums over the entries of a list, taken over its index set.
RECURSIVE SigmaCountOver(_, _)
SigmaCountOver(idx, sources) ==
    IF idx = {} THEN 0
    ELSE LET i == CHOOSE k \in idx : TRUE
         IN sources[i].count + SigmaCountOver(idx \ {i}, sources)

RECURSIVE SigmaScoreCountOver(_, _)
SigmaScoreCountOver(idx, sources) ==
    IF idx = {} THEN 0
    ELSE LET i == CHOOSE k \in idx : TRUE
         IN sources[i].score * sources[i].count
            + SigmaScoreCountOver(idx \ {i}, sources)

SigmaCount(sources) == SigmaCountOver(DOMAIN sources, sources)
SigmaScoreCount(sources) == SigmaScoreCountOver(DOMAIN sources, sources)

\* C1: in every aggregate a run writes, every vendor's totalCount is the sum
\* of the counts of its sources list.
C1_TotalCountIsSum ==
    Ran => \A slug \in DOMAIN aggregated :
              aggregated[slug].totalCount = SigmaCount(aggregated[slug].sources)

\* A vendor whose total is made of several entries, one source twice among them.
C1_Witness ==
    /\ Ran
    /\ \E slug \in DOMAIN aggregated :
          /\ Len(aggregated[slug].sources) = 2
          /\ aggregated[slug].sources[1].source = aggregated[slug].sources[2].source
          /\ aggregated[slug].totalCount = 30

\* t (tenths) is the mean num / den rounded to one decimal, a half going up.
IsRoundedMean(t, num, den) ==
    /\ 2 * t * den - den <= 2 * num
    /\ 2 * num < 2 * t * den + den

Reorderings(sources) ==
    {[i \in DOMAIN sources |-> sources[p[i]]] : p \in Permutations(DOMAIN sources)}

\* C2: every vendor's aggregateScore is the count-weighted mean of its
\* sources' scores rounded to one decimal when totalCount > 0, is null exactly
\* when totalCount = 0, and is what every ordering of the sources gives.
C2_AggregateScoreIsWeightedMean ==
    Ran => \A slug \in DOMAIN aggregated :
              LET data == aggregated[slug]
              IN /\ (data.aggregateScore = Undef) <=> (data.totalCount = 0)
                 /\ data.totalCount > 0 =>
                       /\ data.aggregateScore.t = "num"
                       /\ IsRoundedMean(data.aggregateScore.v,
                                        SigmaScoreCount(data.sources),
                                        data.totalCount)
                 /\ \A other \in Reorderings(data.sources) :
                       calculateAggregate(other) = data.aggregateScore

\* Two sources of different score and count: the weighted mean 4.7 is not the
\* plain mean 4.5.
C2_Witness ==
    /\ Ran
    /\ \E slug \in DOMAIN aggregated :
          /\ Len(aggregated[slug].sources) = 2
          /\ aggregated[slug].sources[1].count # aggregated[slug].sources[2].count
          /\ aggregated[slug].sources[1].score # aggregated[slug].sources[2].score
          /\ aggregated[slug].aggregateScore = Num(47)

\* The list has two entries of one source name.
HasDuplicateSource(sources) ==
    \E i, j \in DOMAIN sources : i < j /\ sources[i].source = sources[j].source

\* C3: a further run, on the same or a later date, with the same registry and
\* raw dumps and the written aggregate as its previous snapshot, writes that
\* aggregate again, every lastUpdated and lastAggregated included.
C3_Idempotent ==
    Ran => \A d \in today..MaxDay :
              aggregate(registry, aggregated, g2Raw, capterraRaw, d) = aggregated

SourceNames(sources) == {sources[i].source : i \in DOMAIN sources}

\* The (score, count) pairs a list holds for one source name, in list order.
RECURSIVE Ratings(_, _)
Ratings(sources, name) ==
    IF sources = <<>> THEN <<>>
    ELSE (IF Head(sources).source = name
          THEN <<<<Head(sources).score, Head(sources).count>>>> ELSE <<>>)
         \o Ratings(Tail(sources), name)

SourceAdded(prevSources, currSources) ==
    SourceNames(currSources) \ SourceNames(prevSources) # {}
SourceRemoved(prevSources, currSources) ==
    SourceNames(prevSources) \ SourceNames(currSources) # {}
RatingDiffers(prevSources, currSources) ==
    \E name \in SourceNames(prevSources) \cap SourceNames(currSources) :
        Ratings(prevSources, name) # Ratings(currSources, name)

\* What the claims call a change of a vendor's sources between two runs.
SourcesDiffer(prevSources, currSources) ==
    \/ SourceAdded(prevSources, currSources)
    \/ SourceRemoved(prevSources, currSources)
    \/ RatingDiffers(prevSources, currSources)

\* C4: if, against the previous snapshot, a source of a vendor is added or
\* removed or a source's score or count differs, the vendor's lastAggregated
\* is the run date.
C4_ChangeAdvancesLastAggregated ==
    Ran => \A slug \in DOMAIN aggregated :
              SourcesDiffer(Sources(previous, slug), aggregated[slug].sources)
                 => aggregated[slug].lastAggregated = today

\* C5: a vendor of the previous snapshot whose sources, with every source's
\* score and count, are those of the previous run keeps the previous
\* lastAggregated.
C5_UnchangedKeepsLastAggregated ==
    Ran => \A slug \in DOMAIN aggregated \cap DOMAIN previous :
              ~SourcesDiffer(previous[slug].sources, aggregated[slug].sources)
                 => aggregated[slug].lastAggregated = previous[slug].lastAggregated

\* A later run found a vendor's sources as they were and left a stamp older
\* than its own date.
C5_Witness ==
    /\ Ran
    /\ \E slug \in DOMAIN aggregated \cap DOMAIN previous :
          /\ aggregated[slug].sources # <<>>
          /\ ~SourcesDiffer(previous[slug].sources, aggregated[slug].sources)
          /\ previous[slug].lastAggregated < today
          /\ aggregated[slug].lastAggregated < today

\* C7: for a (vendor, source) pair of the previous snapshot and the new
\* output, lastUpdated is the previous value if (score, count, url) is
\* unchanged and the run date otherwise.
C7_LastUpdatedRule ==
    Ran => \A slug \in DOMAIN aggregated \cap DOMAIN previous :
              \A i \in DOMAIN aggregated[slug].sources :
                 LET e == aggregated[slug].sources[i]
                     ps == previous[slug].sources
                     same == {k \in DOMAIN ps :
                                 /\ ps[k].source = e.source
                                 /\ ps[k].score = e.score
                                 /\ ps[k].count = e.count
                                 /\ ps[k].url = e.url}
                 IN e.source \in SourceNames(ps) =>
                       IF same # {}
                       THEN \E k \in same : e.lastUpdated = ps[k].lastUpdated
                       ELSE e.lastUpdated = today

\* The entries the raw items of the dumps, each taken alone, give a vendor
\* for a source name, in processing order.
Extracted(slug, name) ==
    LET empty == InitResult(registry, previous, today)
        one(item) == IF name = "g2"
                     THEN G2Item(item, empty, registry, previous, today)[slug].sources
                     ELSE CapterraItem(item, empty, registry, previous, today)[slug].sources
        items == IF name = "g2" THEN g2Raw.items ELSE capterraRaw.items
        hits == SelectSeq(items, LAMBDA item : one(item) # <<>>)
    IN [i \in DOMAIN hits |-> one(hits[i])[1]]

\* C9: a vendor's sources list holds one entry per source name at most; when
\* several raw items of a dump resolve to one vendor and source, the entry
\* carries the score and count of the last of them.
C9_OneEntryPerSource ==
    Ran => \A slug \in DOMAIN aggregated :
              /\ ~HasDuplicateSource(aggregated[slug].sources)
              /\ \A name \in {"g2", "capterra"} :
                    LET ex == Extracted(slug, name)
                    IN ex # <<>> =>
                          Ratings(aggregated[slug].sources, name)
                             = <<<<ex[Len(ex)].score, ex[Len(ex)].count>>>>

\* The vendor the Source Extractor resolves a raw item of a dump to.
OwnerOf(item, name) ==
    IF name = "g2"
    THEN mapToVendorSlug(extractG2Slug(UrlOr(item.productUrl, item.url)),
                         "g2", registry)
    ELSE mapToVendorSlug(extractCapterraSlug(UrlOr(item.url, item.productUrl)),
                         "capterra", registry)

\* The items of a dump that are not a vendor's.
NotOf(items, name, slug) ==
    SelectSeq(items, LAMBDA item : OwnerOf(item, name) # slug)

\* The dumps that differ from the dumps of the last run in the raw data of
\* one vendor only.
DumpsChangedFor(slug) ==
    LET g2Kept == NotOf(g2Raw.items, "g2", slug)
        capterraKept == NotOf(capterraRaw.items, "capterra", slug)
        g2Alt == {d \in G2Dumps : NotOf(d.items, "g2", slug) = g2Kept}
        capterraAlt ==
            {d \in CapterraDumps : NotOf(d.items, "capterra", slug) = capterraKept}
    IN {alt \in g2Alt \X capterraAlt :
           Len(alt[1].items) + Len(alt[2].items) <= MaxItems}

\* C6: a change in the raw data of one vendor leaves the record of every
\* other vendor as it is without the change.
C6_OtherVendorsUntouched ==
    Ran => \A slug \in DOMAIN aggregated :
              \A alt \in DumpsChangedFor(slug) :
                 \A other \in DOMAIN aggregated \ {slug} :
                    aggregate(registry, previous, alt[1], alt[2], today)[other]
                       = aggregated[other]

\* A run that changed one vendor's record while another vendor, with reviews
\* and an older stamp, kept its record.
C6_Witness ==
    /\ Ran
    /\ \E slug, other \in DOMAIN aggregated \cap DOMAIN previous :
          /\ slug # other
          /\ aggregated[slug] # previous[slug]
          /\ aggregated[other] = previous[other]
          /\ aggregated[other].sources # <<>>
          /\ aggregated[other].lastAggregated < today
          /\ \E alt \in DumpsChangedFor(slug) : alt # <<g2Raw, capterraRaw>>

NoExtractedSource(slug) ==
    Extracted(slug, "g2") = <<>> /\ Extracted(slug, "capterra") = <<>>

\* C8 as claimed: the output has a record for every registry vendor; a vendor
\* with no extracted source has a null score, a zero total, no sources, and
\* lastAggregated kept from the previous snapshot, or the run date when it
\* has no previous record.
C8_TotalOverRegistryStampKept ==
    Ran => /\ DOMAIN aggregated = VendorSlugs(registry)
           /\ \A slug \in DOMAIN aggregated :
                 NoExtractedSource(slug) =>
                    /\ aggregated[slug].aggregateScore = Undef
                    /\ aggregated[slug].totalCount = 0
                    /\ aggregated[slug].sources = <<>>
                    /\ aggregated[slug].lastAggregated =
                          IF slug \in DOMAIN previous
                          THEN previous[slug].lastAggregated ELSE today

\* C8, amended: the stamp is kept when the previous record has no sources
\* either; it is the run date when there is no previous record or the
\* previous record had sources, which this run removed.
C8_TotalOverRegistry ==
    Ran => /\ DOMAIN aggregated = VendorSlugs(registry)
           /\ \A slug \in DOMAIN aggregated :
                 NoExtractedSource(slug) =>
                    /\ aggregated[slug].aggregateScore = Undef
                    /\ aggregated[slug].totalCount = 0
                    /\ aggregated[slug].sources = <<>>
                    /\ aggregated[slug].lastAggregated =
                          IF slug \in DOMAIN previous
                             /\ previous[slug].sources = <<>>
                          THEN previous[slug].lastAggregated ELSE today

\* A later run with nothing for a vendor that had nothing before: the record
\* is empty and the stamp is the old one.
C8_Witness ==
    /\ Ran
    /\ \E slug \in DOMAIN aggregated \cap DOMAIN previous :
          /\ NoExtractedSource(slug)
          /\ previous[slug].sources = <<>>
          /\ previous[slug].lastAggregated < today
          /\ aggregated[slug].lastAggregated = previous[slug].lastAggregated

Without(items, i) == SubSeq(items, 1, i - 1) \o SubSeq(items, i + 1, Len(items))

\* The score and the count a raw item carries for a source, field by field.
ScoreOf(item, name) ==
    IF name = "g2" THEN Coalesce(item.rating, item.overallRating)
    ELSE Coalesce(item.overallRating, item.rating)
CountOf(item) == Coalesce(item.reviewCount, item.totalReviews)

IsNonNegativeNumber(x) == x.t = "num" /\ x.v >= 0

\* An item the claim says contributes nothing.
MustBeDropped(item, name) ==
    \/ OwnerOf(item, name) = NoSlug
    \/ ~IsNonNegativeNumber(ScoreOf(item, name))
    \/ ~IsNonNegativeNumber(CountOf(item))
    \/ CountOf(item) = Num(0)

\* C10: a raw item whose identifier matches no registry mapping, or whose
\* score or count is not a finite non-negative number, or whose count is
\* zero, contributes nothing: the run writes what it writes without the item.
C10_BadItemsContributeNothing ==
    Ran => /\ \A i \in DOMAIN g2Raw.items :
                 MustBeDropped(g2Raw.items[i], "g2") =>
                    aggregate(registry, previous,
                              ArrayDump(Without(g2Raw.items, i)),
                              capterraRaw, today) = aggregated
           /\ \A i \in DOMAIN capterraRaw.items :
                 MustBeDropped(capterraRaw.items[i], "capterra") =>
                    aggregate(registry, previous, g2Raw,
                              ArrayDump(Without(capterraRaw.items, i)),
                              today) = aggregated

\* C11: every aggregate a run writes passes the error-level checks of the
\* validation gate: source names g2 or capterra, scores in 0..5, counts not
\* negative, urls not empty, aggregateScore null or in 0..5, and totalCount
\* equal to the sum of the source counts.
C11_OutputPassesValidation ==
    Ran => validate(aggregated) = {}

\* C12: a run that finds the registry, the previous aggregate or a raw dump
\* unparseable ends with a non-zero exit code and leaves
\* aggregated-reviews.json as it was before the run.
C12_MalformedInputAborts ==
    [][(pc' = "done" /\ unparseable # {})
          => /\ exitCode' # 0
             /\ aggregated' = aggregated
             /\ ("aggregated" \in unparseable') = ("aggregated" \in unparseable)]_vars

\* C13: a vendor whose registry mapping for a source is null has no entry of
\* that source in its sources list, whatever the dump of that source holds.
C13_NullMappingNeverAggregated ==
    Ran => \A i \in DOMAIN registry :
              \A name \in {"g2", "capterra"} :
                 registry[i][name] = NoMapping =>
                    name \notin SourceNames(aggregated[registry[i].slug].sources)

\* A run over a Capterra dump with an item whose identifier is the slug of a
\* vendor that has no Capterra mapping: the item went to no entry of that vendor.
C13_Witness ==
    /\ Ran
    /\ \E i \in DOMAIN registry :
          /\ registry[i].capterra = NoMapping
          /\ \E k \in DOMAIN capterraRaw.items :
                /\ extractCapterraSlug(UrlOr(capterraRaw.items[k].url,
                                             capterraRaw.items[k].productUrl))
                      = registry[i].slug
                /\ OwnerOf(capterraRaw.items[k], "capterra") # NoSlug
          /\ aggregated[registry[i].slug].sources # <<>>
          /\ "capterra" \notin SourceNames(aggregated[registry[i].slug].sources)

\* The narrow and the broad count of a report, and whether a strong-signal
\* keyword is among the narrow matches.
NarrowCount(report) ==
    IF report.ketamine_evidence.null THEN 0 ELSE report.ketamine_evidence.count
BroadCount(report) ==
    IF report.psychiatry_evidence.null THEN 0 ELSE report.psychiatry_evidence.count
StrongSignal(report) ==
    \E i \in DOMAIN report.ketamine_evidence.matches :
        report.ketamine_evidence.matches[i].keyword
            \in {"ketamine", "spravato", "esketamine"}

\* C14: a report with websiteLive = false is classified unknown with
\* confidence low, whatever its evidence counts and matches are.
C14_DeadSiteIsUnknown ==
    \A k \in DOMAIN classifications :
        ~verificationResults[k].website_live =>
            /\ classifications[k].classification = "unknown"
            /\ classifications[k].confidence = "low"

\* A report of a dead website with five narrow mentions and a strong keyword
\* has been classified.
C14_Witness ==
    \E k \in DOMAIN classifications :
        /\ ~verificationResults[k].website_live
        /\ NarrowCount(verificationResults[k]) >= 5
        /\ StrongSignal(verificationResults[k])
        /\ BroadCount(verificationResults[k]) >= 3
        /\ classifications[k].classification = "unknown"

\* C15: a report with websiteLive = true gets the result of the first rule
\* that matches: narrow >= 5 with a strong signal, specific/high; narrow >= 1
\* or broad >= 3, compatible with medium if narrow > 0 else low; otherwise
\* general/high.  So narrow 5 with a strong signal is specific/high, narrow 0
\* with broad 3 compatible/low, narrow 0 with broad 0 general/high.
C15_FirstMatchingRule ==
    \A k \in DOMAIN classifications :
        LET report == verificationResults[k]
            narrow == NarrowCount(report)
            broad == BroadCount(report)
            got == <<classifications[k].classification, classifications[k].confidence>>
        IN report.website_live =>
              /\ got = IF narrow >= 5 /\ StrongSignal(report)
                       THEN <<"ketamine_specific", "high">>
                       ELSE IF narrow >= 1 \/ broad >= 3
                       THEN <<"ketamine_compatible",
                              IF narrow > 0 THEN "medium" ELSE "low">>
                       ELSE <<"general_ehr", "high">>
              /\ (narrow = 5 /\ StrongSignal(report))
                    => got = <<"ketamine_specific", "high">>
              /\ (narrow = 0 /\ broad = 3) => got = <<"ketamine_compatible", "low">>
              /\ (narrow = 0 /\ broad = 0) => got = <<"general_ehr", "high">>

\* A live report with exactly five narrow mentions and a strong keyword has
\* been classified specific/high.
C15_Witness ==
    \E k \in DOMAIN classifications :
        /\ verificationResults[k].website_live
        /\ NarrowCount(verificationResults[k]) = 5
        /\ StrongSignal(verificationResults[k])
        /\ classifications[k].classification = "ketamine_specific"
        /\ classifications[k].confidence = "high"

\* C16: in a full acquisition run, the capability flags of the entry of a
\* candidate whose website is live are the capability inference of its
\* verification report, whatever category it was given.
C16_FlagsAreInferred ==
    \A k \in DOMAIN newEntries :
        reports[k].website_live =>
            newEntries[k].ketamine_features = inferKetamineFeatures(reports[k])

ContentSoftwareTypes == {"ketamine_specific", "ketamine_compatible", "general_ehr"}

\* C17: every candidate entry conforms to the content schema: software_type
\* is ketamine_specific, ketamine_compatible or general_ehr and the
\* verification status is needs_review, also when the website is unreachable.
C17_EntriesConformToSchema ==
    \A k \in DOMAIN newEntries :
        /\ newEntries[k].software_type \in ContentSoftwareTypes
        /\ newEntries[k].verification.status = "needs_review"

\* The normalized name of the claims: lowercased, anything but a letter or a
\* digit taken out.
RECURSIVE NormalizedName(_)
NormalizedName(name) ==
    IF name = <<>> THEN <<>>
    ELSE LET upper == <<"A", "B", "D", "E", "G", "H", "Z">>
             lower == <<"a", "b", "d", "e", "g", "h", "z">>
             at == {i \in DOMAIN upper : upper[i] = Head(name)}
             c == IF at = {} THEN Head(name) ELSE lower[CHOOSE i \in at : TRUE]
         IN (IF c \in Alnum THEN <<c>> ELSE <<>>) \o NormalizedName(Tail(name))

HasDomain(website) == website.scheme # ""

\* The normalized domain of the claims: the lowercased host without a
\* leading www.
NormalizedDomain(website) ==
    LET host == [i \in DOMAIN website.host |-> ToLower(website.host[i])]
    IN IF Len(host) >= 2 /\ host[1] = "www" THEN SubSeq(host, 2, Len(host)) ELSE host

SameName(a, b) == NormalizedName(a.name) = NormalizedName(b.name)
SameDomain(a, b) ==
    /\ HasDomain(a.website)
    /\ HasDomain(b.website)
    /\ NormalizedDomain(a.website) = NormalizedDomain(b.website)
Duplicates(a, b) == SameName(a, b) \/ SameDomain(a, b)

DuplicatesExisting(c) ==
    \E k \in DOMAIN existingVendors : Duplicates(c, existingVendors[k])

Accepted(i) == log[i] = "added"

\* C18: a discovered candidate whose normalized name or normalized domain is
\* that of an existing vendor is rejected, as a name match or a domain match;
\* so are "Acme Health!" against "acme health" and
\* https://www.acme.io/pricing against https://acme.io.
C18_DuplicateOfExistingRejected ==
    \A i \in DOMAIN log :
        LET c == AllDiscovered[i]
        IN /\ DuplicatesExisting(c) =>
                 /\ ~Accepted(i)
                 /\ c.website # NoWebsite => log[i] \in {"name match", "domain match"}
           /\ (/\ c.name = <<"A", "c", "m", "e", " ", "H", "e", "a", "l", "t", "h", "!">>
               /\ c.website # NoWebsite
               /\ \E k \in DOMAIN existingVendors :
                     existingVendors[k].name
                        = <<"a", "c", "m", "e", " ", "h", "e", "a", "l", "t", "h">>)
                 => log[i] = "name match"
           /\ (/\ c.website = Site("https", <<"www", "acme", "io">>, <<"pricing">>)
               /\ \A k \in DOMAIN existingVendors : ~SameName(c, existingVendors[k])
               /\ \E k \in DOMAIN existingVendors :
                     existingVendors[k].website = Site("https", <<"acme", "io">>, <<>>))
                 => log[i] = "domain match"

\* "Acme Health!" was rejected for its name and the candidate at
\* https://www.acme.io/pricing for its domain, in one batch.
C18_Witness ==
    /\ Len(log) = 2
    /\ AllDiscovered[1].name
          = <<"A", "c", "m", "e", " ", "H", "e", "a", "l", "t", "h", "!">>
    /\ log[1] = "name match"
    /\ AllDiscovered[2].website = Site("https", <<"www", "acme", "io">>, <<"pricing">>)
    /\ log[2] = "domain match"

DuplicatesEarlierAccepted(i) ==
    \E j \in 1..(i - 1) : Accepted(j) /\ Duplicates(AllDiscovered[i], AllDiscovered[j])

\* C19 as claimed: a candidate is never rejected unless its normalized name
\* or normalized domain is that of an existing vendor or of a candidate
\* accepted earlier in the batch.
C19_RejectedOnlyAsDuplicate ==
    \A i \in DOMAIN log :
        ~Accepted(i) =>
            DuplicatesExisting(AllDiscovered[i]) \/ DuplicatesEarlierAccepted(i)

\* C19, amended: that holds of the candidates that have a website; a
\* candidate without a website is skipped before any comparison.
C19_RejectedOnlyAsDuplicateOrNoWebsite ==
    \A i \in DOMAIN log :
        IF AllDiscovered[i].website = NoWebsite
        THEN log[i] = "no website"
        ELSE ~Accepted(i) =>
                DuplicatesExisting(AllDiscovered[i]) \/ DuplicatesEarlierAccepted(i)

\* Two candidates of different names and domains, neither a duplicate of an
\* existing vendor, were both retained.
C19_Witness ==
    /\ Len(log) = 2
    /\ Len(AllDiscovered) = 2
    /\ ~Duplicates(AllDiscovered[1], AllDiscovered[2])
    /\ HasDomain(AllDiscovered[1].website)
    /\ HasDomain(AllDiscovered[2].website)
    /\ Accepted(1)
    /\ Accepted(2)
    /\ newVendors = AllDiscovered

Deduplicated == Len(log) = Len(AllDiscovered)

\* The candidates the log marks as added, in input order.
RECURSIVE AcceptedUpTo(_)
AcceptedUpTo(n) ==
    IF n = 0 THEN <<>>
    ELSE AcceptedUpTo(n - 1) \o (IF Accepted(n) THEN <<AllDiscovered[n]>> ELSE <<>>)

\* No accepted candidate duplicates an existing vendor or another accepted
\* candidate, and the accepted candidates are in input order.
AcceptedAreDistinct ==
    /\ newVendors = AcceptedUpTo(Len(log))
    /\ \A i \in DOMAIN log :
          Accepted(i) =>
             /\ ~DuplicatesExisting(AllDiscovered[i])
             /\ \A j \in DOMAIN log :
                   (j # i /\ Accepted(j)) => ~Duplicates(AllDiscovered[i], AllDiscovered[j])

\* C20 as claimed: after deduplication no accepted candidate shares a
\* normalized name or domain with an existing vendor or another accepted
\* candidate, the accepted candidates keep their input order, and of
\* candidates that duplicate each other the earliest is the accepted one.
C20_EarliestDuplicateAccepted ==
    Deduplicated =>
        /\ AcceptedAreDistinct
        /\ \A i, j \in DOMAIN log :
              (i < j /\ Duplicates(AllDiscovered[i], AllDiscovered[j])) => ~Accepted(j)

\* C20, amended: a candidate rejected as a duplicate within the batch
\* duplicates a candidate accepted earlier; a later candidate is accepted
\* when every earlier candidate it duplicates was itself rejected.
C20_AcceptedAreDistinctInOrder ==
    Deduplicated =>
        /\ AcceptedAreDistinct
        /\ \A j \in DOMAIN log :
              /\ log[j] = "duplicate in discovered list" => DuplicatesEarlierAccepted(j)
              /\ (/\ AllDiscovered[j].website # NoWebsite
                  /\ ~DuplicatesExisting(AllDiscovered[j])
                  /\ ~DuplicatesEarlierAccepted(j)) => Accepted(j)

\* Of two candidates with one domain the first was accepted and the second
\* rejected as a duplicate within the batch.
C20_Witness ==
    /\ Deduplicated
    /\ Len(log) = 2
    /\ SameDomain(AllDiscovered[1], AllDiscovered[2])
    /\ ~SameName(AllDiscovered[1], AllDiscovered[2])
    /\ Accepted(1)
    /\ log[2] = "duplicate in discovered list"
    /\ newVendors = <<AllDiscovered[1]>>

\* The source names of a list are in name order.
InNameOrder(sources) ==
    \A i, j \in DOMAIN sources :
        i < j => ~SourceBefore(sources[j].source, sources[i].source)

\* The dumps hold one record each, both of one vendor that has no record in
\* the previous aggregate, with 4.0 from 10 reviews and 4.5 from 20.
TwoSourceScenario(slug) ==
    /\ slug \notin DOMAIN previous
    /\ Len(g2Raw.items) = 1
    /\ Len(capterraRaw.items) = 1
    /\ OwnerOf(g2Raw.items[1], "g2") = slug
    /\ OwnerOf(capterraRaw.items[1], "capterra") = slug
    /\ {<<ScoreOf(g2Raw.items[1], "g2"), CountOf(g2Raw.items[1])>>,
        <<ScoreOf(capterraRaw.items[1], "capterra"), CountOf(capterraRaw.items[1])>>}
          = {<<Num(400), Num(10)>>, <<Num(450), Num(20)>>}

\* C24: every vendor's sources list is in source name order, whatever the
\* dumps hold and although the G2 dump is processed before the Capterra
\* dump; a vendor without a previous record that gets 4.0 from 10 reviews of
\* one source and 4.5 from 20 of the other has totalCount 30, aggregateScore
\* 4.3, the two sources in name order and lastAggregated = the run date.
C24_SourcesInNameOrder ==
    Ran => \A slug \in DOMAIN aggregated :
              /\ InNameOrder(aggregated[slug].sources)
              /\ TwoSourceScenario(slug) =>
                    /\ aggregated[slug].totalCount = 30
                    /\ aggregated[slug].aggregateScore = Num(43)
                    /\ SourceNames(aggregated[slug].sources) = {"capterra", "g2"}
                    /\ Len(aggregated[slug].sources) = 2
                    /\ aggregated[slug].sources[1].source = "capterra"
                    /\ aggregated[slug].sources[2].source = "g2"
                    /\ aggregated[slug].lastAggregated = today

\* The first run of the scenario, on the second day: the G2 entry was pushed
\* first and stands second.
C24_Witness ==
    /\ Ran
    /\ today = 2
    /\ \E slug \in DOMAIN aggregated :
          /\ TwoSourceScenario(slug)
          /\ aggregated[slug].totalCount = 30
          /\ aggregated[slug].aggregateScore = Num(43)
          /\ aggregated[slug].sources[1].source = "capterra"
          /\ aggregated[slug].sources[2].source = "g2"
          /\ aggregated[slug].lastAggregated = 2

\* C28: in every aggregate a run writes, no source's lastUpdated is later
\* than the lastAggregated of its vendor.
C28_LastUpdatedNotAfterLastAggregated ==
    Ran => \A slug \in DOMAIN aggregated :
              \A i \in DOMAIN aggregated[slug].sources :
                 aggregated[slug].sources[i].lastUpdated
                    <= aggregated[slug].lastAggregated

\* C29: the slugs of the entries generated in one run differ from each other
\* and from the slug of every existing vendor.
C29_SlugsAreDistinct ==
    /\ \A i, j \in DOMAIN newEntries :
          i # j => newEntries[i].slug # newEntries[j].slug
    /\ \A i \in DOMAIN newEntries :
          \A k \in DOMAIN existingVendors :
             newEntries[i].slug # existingVendors[k].slug

----------------------------------------------------------------------------
(* Properties of the evidence collector, request by request. *)

\* The text the pages of a vendor give when they are answered as in answers
RECURSIVE TextOf(_, _, _)
TextOf(vendor, answers, k) ==
    IF k > Len(answers) THEN <<>>
    ELSE (IF answers[k] = "ok"
          THEN PageText(pageUrl(PAGES_TO_CHECK[k], vendor.website))
          ELSE <<>>) \o TextOf(vendor, answers, k + 1)

\* The pages of a vendor that gave text when answered as in answers
RECURSIVE PagesOf(_, _, _)
PagesOf(vendor, answers, k) ==
    IF k > Len(answers) THEN <<>>
    ELSE (IF answers[k] = "ok"
             /\ PageText(pageUrl(PAGES_TO_CHECK[k], vendor.website)) # <<>>
          THEN <<IF PAGES_TO_CHECK[k] = "" THEN "/" ELSE PAGES_TO_CHECK[k]>>
          ELSE <<>>) \o PagesOf(vendor, answers, k + 1)

\* The report that follows from the answers to the requests of one vendor
ReportOf(vendor, probe, answers) ==
    IF probe = "ok"
    THEN websiteLiveReport(vendor, TextOf(vendor, answers, 1),
                           PagesOf(vendor, answers, 1))
    ELSE websiteDownReport(vendor)

\* The entry that follows from the answers to the requests of one vendor
EntryOf(vendor, probe, answers) ==
    generateSoftwareEntry(vendor, ReportOf(vendor, probe, answers),
                          classifyVendor(ReportOf(vendor, probe, answers)))

\* The pass over a vendor has just ended
PassEnded == collectPc = "sleep"

\* The run is over
RunEnded == acquirePc \in {"saved", "returned"}

C22_EntryFromOwnAnswers ==
    (runMode = "acquire" /\ PassEnded) =>
        LET i == Len(newEntries)
        IN /\ newEntries[i] = EntryOf(newVendors[i], requested[i].answer, responses)
           /\ requested[i].answer = "ok" =>
                 /\ Len(responses) = Len(PAGES_TO_CHECK)
                 /\ \A k \in DOMAIN PAGES_TO_CHECK : requested[i].pages[k] = 1

C22_EntriesStay ==
    \A k \in DOMAIN newEntries : k \in DOMAIN newEntries' /\ newEntries'[k] = newEntries[k]

C22_OnePerCandidate ==
    acquirePc = "saved" =>
        /\ Len(newVendorsFile) = Len(newVendors)
        /\ \A k \in DOMAIN newVendors :
              /\ newVendorsFile[k].name = newVendors[k].name
              /\ newVendorsFile[k].website = newVendors[k].website

ClassificationOf(result) ==
    [classification |-> classifyVendor(result).classification,
     reason |-> classifyVendor(result).reason,
     confidence |-> classifyVendor(result).confidence,
     inferred_features |-> inferKetamineFeatures(result)]

\* C21: when the run with --verify-only returns, its classifications are
\* those of the reports this run's verification of the existing vendors has
\* produced, one per existing vendor.
C21_ClassifiesTheReportsOfThisRun ==
    (runMode = "verify" /\ acquirePc = "returned") =>
        /\ Len(classifications) = Len(existingVendors)
        /\ \A k \in DOMAIN existingVendors :
              classifications[k] = ClassificationOf(reports[k])

\* C23: at every moment of a run the candidate-entries file and its summary
\* belong together: a reader finds either both as the previous run left
\* them or both as this run writes them.
C23_EntriesAndSummaryAppearTogether ==
    summaryFile = Summary(newVendorsFile)

\* The report of a website that is down
IsDownReport(report) ==
    /\ report.website_live = FALSE
    /\ report.status = "unverified"
    /\ "pages_checked" \notin DOMAIN report
    /\ report.ketamine_evidence = NoEvidence
    /\ report.psychiatry_evidence = NoEvidence

\* C25: when the probe of a vendor's website has failed, timed out or got a
\* non-success status, no page of that vendor is requested afterwards, and
\* the vendor's report has website_live false, status unverified and no
\* evidence counts.
C25_FailedProbeEndsThePass ==
    \A i \in DOMAIN requested :
        requested[i].answer = "failed" =>
            /\ \A k \in DOMAIN PAGES_TO_CHECK : requested[i].pages[k] = 0
            /\ \A request \in inFlight : request.vendor = i => request.method = "HEAD"
            /\ (runMode = "verify" /\ i <= Len(reports)) => IsDownReport(reports[i])
            /\ (PassEnded /\ i = Len(requested)) => IsDownReport(currentReport[1])

C25_Witness ==
    /\ runMode = "verify"
    /\ PassEnded
    /\ Len(reports) = 2
    /\ requested[1].answer = "failed"
    /\ IsDownReport(reports[1])
    /\ requested[2].answer = "ok"
    /\ reports[2].website_live

\* The loop over the vendors is behind the run
VerificationOver ==
    acquirePc \in {"summary", "saved", "classify", "returned", "exited"}

\* The URLs of the pages of vendor i that have been requested
RequestedUrl(i, k) == pageUrl(PAGES_TO_CHECK[k], Batch[i].website)

\* C26: in one run the probe of a vendor's website is issued exactly once,
\* each page is requested at most once per vendor, and a request that
\* failed or timed out is not issued again: no entry of the list of paths is
\* requested twice, and no two requests of a vendor's pages go to the same
\* URL.
C26_NoRequestIsRepeated ==
    /\ \A i \in DOMAIN requested :
          /\ requested[i].probe = 1
          /\ \A k \in DOMAIN PAGES_TO_CHECK : requested[i].pages[k] <= 1
          /\ \A k, l \in DOMAIN PAGES_TO_CHECK :
                (k < l /\ requested[i].pages[k] > 0 /\ requested[i].pages[l] > 0)
                    => RequestedUrl(i, k) # RequestedUrl(i, l)
    /\ Len(requested) <= Len(Batch)
    /\ VerificationOver => Len(requested) = Len(Batch)

\* The requests in flight are those of one vendor, the one the loop is at
C27_OneVendorInFlight ==
    \A request \in inFlight :
        /\ request.vendor = Verified + 1
        /\ collectPc \in {"probing", "fetching"}

\* The step that issues the first request of a vendor behind the first
C27_NextVendorBegins ==
    /\ Len(requested) >= 1
    /\ Len(requested') = Len(requested) + 1

C27_NextVendorWaits ==
    C27_NextVendorBegins =>
        /\ inFlight = {}
        /\ waited = InterVendorDelay
        /\ requested[Len(requested)].answer # "none"

\* C27: the vendors are verified one after the other, in the full run and in
\* the run with --verify-only: the requests in flight are those of one
\* vendor, and the first request of the next vendor is issued only when every
\* request of the vendor before it has ended and the delay between vendors
\* has passed.
C27_VerificationIsSerialized ==
    []C27_OneVendorInFlight /\ [][C27_NextVendorWaits]_vars

C27_Witness ==
    /\ runMode = "verify"
    /\ collectPc = "probing"
    /\ Len(requested) = 2
    /\ requested[1].answer = "ok"
    /\ inFlight = {Request(2, "HEAD", existingVendors[2].website)}
    /\ waited = InterVendorDelay

\* The category the classifier gives a report
CategoryOf(report) == classifyVendor(report).classification

\* Status and category of one report agree
StatusAndCategoryAgree(report) ==
    /\ report.status = "verified" =>
          CategoryOf(report) \in {"ketamine_specific", "ketamine_compatible"}
    /\ CategoryOf(report) = "general_ehr" => report.status = "needs_review"
    /\ report.status = "unverified" <=> CategoryOf(report) = "unknown"

\* C30: for every report the collector produces, status and category agree:
\* verified implies ketamine_specific or ketamine_compatible, general_ehr
\* implies needs_review, and unverified holds exactly when the category is
\* unknown.
C30_StatusAgreesWithCategory ==
    /\ \A k \in DOMAIN currentReport : StatusAndCategoryAgree(currentReport[k])
    /\ \A k \in DOMAIN reports : StatusAndCategoryAgree(reports[k])

C30_Witness ==
    /\ runMode = "verify"
    /\ Len(reports) = 2
    /\ reports[1].status = "verified"
    /\ CategoryOf(reports[1]) = "ketamine_specific"
    /\ reports[2].status = "needs_review"
    /\ CategoryOf(reports[2]) = "general_ehr"
    /\ reports[2].psychiatry_evidence.count = 1

====
